---- MODULE Spec2Model ----
(***************************************************************************)
(* Model of the export pipeline of openscreenPlus:                         *)
(*   src/src/lib/exporter/videoExporter.ts  (VideoExporter, the seek-based *)
(*   revision that starts at line 464 of the file)                         *)
(*   src/src/lib/exporter/audioExtractor.ts (AudioExtractor)               *)
(*   src/src/components/video-editor/videoPlayback/zoomTransform.ts        *)
(*                                                                         *)
(* Times the code keeps as JavaScript numbers (IEEE-754 binary64) are      *)
(* modelled as binary64 values, with round-to-nearest-even on every        *)
(* operation, because the capture loop accumulates 1/frameRate.            *)
(***************************************************************************)
EXTENDS Integers, Sequences, FiniteSets, TLC

(***************************************************************************)
(* binary64 arithmetic on non-negative values.                             *)
(* A value is <<i, f2, f1, f0>>: the number                                *)
(*   (i*2^60 + f2*2^40 + f1*2^20 + f0) / 2^60,                             *)
(* every f a 20-bit limb. The model only meets 0 and values in             *)
(* [2^-7, 2^29), whose binary64 spacing is at least 2^-59, so every        *)
(* binary64 value in range is represented exactly.                         *)
(***************************************************************************)
Limb == 2^20

RECURSIVE BitLen(_)
BitLen(n) == IF n = 0 THEN 0 ELSE 1 + BitLen(n \div 2)

\* Number of bits of the 80-bit integer i*2^60 + f2*2^40 + f1*2^20 + f0.
SigBits(d) ==
    IF d[1] > 0 THEN 60 + BitLen(d[1])
    ELSE IF d[2] > 0 THEN 40 + BitLen(d[2])
    ELSE IF d[3] > 0 THEN 20 + BitLen(d[3])
    ELSE BitLen(d[4])

\* Carry propagation from the low limb upwards.
Carry(d) ==
    LET c0 == d[4] \div Limb
        l1 == d[3] + c0
        c1 == l1 \div Limb
        l2 == d[2] + c1
        c2 == l2 \div Limb
    IN  <<d[1] + c2, l2 % Limb, l1 % Limb, d[4] % Limb>>

\* Round an exact result to 53 significant bits, ties to even. sticky says
\* that non-zero bits below the lowest limb were dropped (a division). The
\* bit that is rounded away lies in the lowest limb (k <= 20) or in the one
\* above it (k <= 40).
RoundDouble(d, sticky) ==
    LET k == SigBits(d) - 53
    IN  IF k <= 0 THEN d
        ELSE IF k <= 20
        THEN LET unit == 2^k
                 half == 2^(k - 1)
                 r    == d[4] % unit
                 odd  == IF k = 20 THEN d[3] % 2 = 1
                         ELSE (d[4] \div unit) % 2 = 1
                 up   == \/ r > half
                         \/ r = half /\ (sticky \/ odd)
                 base == d[4] - r
             IN  IF up THEN Carry(<<d[1], d[2], d[3], base + unit>>)
                 ELSE <<d[1], d[2], d[3], base>>
        ELSE LET unit == 2^(k - 20)
                 half == 2^(k - 21)
                 r    == d[3] % unit
                 odd  == IF k = 40 THEN d[2] % 2 = 1
                         ELSE (d[3] \div unit) % 2 = 1
                 low  == d[4] # 0 \/ sticky
                 up   == \/ r > half
                         \/ r = half /\ (low \/ odd)
                 base == d[3] - r
             IN  IF up THEN Carry(<<d[1], d[2], base + unit, 0>>)
                 ELSE <<d[1], d[2], base, 0>>

DZero == <<0, 0, 0, 0>>

\* An integer as a Number.
DFromInt(n) == <<n, 0, 0, 0>>

\* a + b
DAdd(a, b) ==
    RoundDouble(Carry(<<a[1] + b[1], a[2] + b[2], a[3] + b[3], a[4] + b[4]>>), FALSE)

\* n / d for integers 0 <= n, 0 < d < 1024 (the `/` of two integer-valued Numbers).
DDiv(n, d) ==
    LET q1 == n \div d
        r1 == n % d
        q2 == (r1 * Limb) \div d
        r2 == (r1 * Limb) % d
        q3 == (r2 * Limb) \div d
        r3 == (r2 * Limb) % d
        q4 == (r3 * Limb) \div d
        r4 == (r3 * Limb) % d
    IN  RoundDouble(<<q1, q2, q3, q4>>, r4 # 0)

\* k * a for an integer 0 <= k < 2^10 (the `*` of an integer-valued Number
\* and a Number).
DMulInt(k, a) ==
    RoundDouble(Carry(<<k * a[1], k * a[2], k * a[3], k * a[4]>>), FALSE)

\* The integer a Number becomes as a WebIDL long long: its integer part.
DTrunc(a) == a[1]

\* a < b
DLess(a, b) ==
    \/ a[1] < b[1]
    \/ a[1] = b[1] /\ a[2] < b[2]
    \/ a[1] = b[1] /\ a[2] = b[2] /\ a[3] < b[3]
    \/ a[1] = b[1] /\ a[2] = b[2] /\ a[3] = b[3] /\ a[4] < b[4]

DLeq(a, b) == a = b \/ DLess(a, b)

\* a / 2: one bit to the right, limb by limb.
DHalf(a) ==
    RoundDouble(<<a[1] \div 2,
                  a[2] \div 2 + (a[1] % 2) * (Limb \div 2),
                  a[3] \div 2 + (a[2] % 2) * (Limb \div 2),
                  a[4] \div 2 + (a[3] % 2) * (Limb \div 2)>>, a[4] % 2 = 1)

\* A Number of either sign: its sign and its magnitude (zero is not negative).
DSigned(neg, mag) == [neg |-> neg /\ mag # DZero, mag |-> mag]

\* a - b for 0 <= b <= a: exact on the limbs, then rounded.
DDiff(a, b) ==
    RoundDouble(Carry(<<a[1] - b[1], a[2] - b[2], a[3] - b[3], a[4] - b[4]>>), FALSE)

\* a - b for non-negative a and b.
DSub(a, b) ==
    IF DLess(a, b) THEN DSigned(TRUE, DDiff(b, a)) ELSE DSigned(FALSE, DDiff(a, b))

\* x + b for a Number x of either sign and a non-negative b.
DAddSigned(x, b) ==
    IF x.neg THEN DSub(b, x.mag) ELSE DSigned(FALSE, DAdd(x.mag, b))

Min(a, b) == IF a < b THEN a ELSE b
Max(a, b) == IF a > b THEN a ELSE b

RECURSIVE GCD(_, _)
GCD(a, b) == IF b = 0 THEN a ELSE GCD(b, a % b)

(***************************************************************************)
(* Program constants.                                                      *)
(***************************************************************************)
MAX_ENCODE_QUEUE == 60
lookAheadUs == 500000
SAMPLES_PER_CHUNK == 1024 * 4

(***************************************************************************)
(* Bounds of the model.                                                    *)
(***************************************************************************)
\* Segment planning (SpecPlan): source durations 1..MaxPlanDuration seconds,
\* up to MaxTrims trim regions with both ends on a 1000 ms grid that reaches
\* one second beyond the end of the source.
MaxPlanDuration == 2
MaxTrims == 2

(***************************************************************************)
(* Segment planning: export(), "3. 计算片段 (Trim Support)".                *)
(* A trim region is [startMs, endMs]; the source duration is a whole       *)
(* number of seconds; a segment is [start, end] in seconds (Numbers).      *)
(***************************************************************************)
\* Insert region r into the sorted list s after every element whose startMs
\* is not greater (Array.prototype.sort is stable).
RECURSIVE InsertByStart(_, _)
InsertByStart(s, r) ==
    IF s = <<>> THEN <<r>>
    ELSE IF r.startMs < Head(s).startMs THEN <<r>> \o s
    ELSE <<Head(s)>> \o InsertByStart(Tail(s), r)

\* [...trimRegions].sort((a, b) => a.startMs - b.startMs)
RECURSIVE SortedTrims(_)
SortedTrims(trimRegions) ==
    IF trimRegions = <<>> THEN <<>>
    ELSE InsertByStart(SortedTrims(SubSeq(trimRegions, 1, Len(trimRegions) - 1)),
                       trimRegions[Len(trimRegions)])

\* The cursor after one trim region: currentPos = trim.endMs.
AdvanceCursor(currentPos, trim) == trim.endMs

\* for (const trim of sortedTrims) { ... }: the segments pushed and the
\* final cursor.
RECURSIVE PlanLoop(_, _, _, _)
PlanLoop(sortedTrims, i, currentPos, segs) ==
    IF i > Len(sortedTrims) THEN [currentPos |-> currentPos, segments |-> segs]
    ELSE LET trim == sortedTrims[i]
             pushed == IF trim.startMs > currentPos
                       THEN Append(segs, [start |-> DDiv(currentPos, 1000),
                                          end   |-> DDiv(trim.startMs, 1000)])
                       ELSE segs
         IN  PlanLoop(sortedTrims, i + 1, AdvanceCursor(currentPos, trim), pushed)

\* The segments the loop over the trim regions pushes, and no more.
SegmentsBeforeTrims(trimRegions, duration) ==
    PlanLoop(SortedTrims(trimRegions), 1, 0, <<>>).segments

\* The whole segment computation for a source of `duration` seconds.
PlanSegments(trimRegions, duration) ==
    LET loop == PlanLoop(SortedTrims(trimRegions), 1, 0, <<>>)
        tail == IF loop.currentPos < duration * 1000
                THEN Append(loop.segments, [start |-> DDiv(loop.currentPos, 1000),
                                            end   |-> DFromInt(duration)])
                ELSE loop.segments
    IN  IF tail = <<>> /\ trimRegions = <<>>
        THEN <<[start |-> DZero, end |-> DFromInt(duration)]>>
        ELSE tail

\* getEffectiveDuration(totalDuration), in milliseconds.
RECURSIVE TotalTrimMs(_, _)
TotalTrimMs(trimRegions, duration) ==
    IF trimRegions = <<>> THEN 0
    ELSE LET region == Head(trimRegions)
             start == Max(0, region.startMs)
             end == Min(duration * 1000, region.endMs)
         IN  (IF end > start THEN end - start ELSE 0)
             + TotalTrimMs(Tail(trimRegions), duration)

getEffectiveDurationMs(trimRegions, duration) ==
    Max(0, duration * 1000 - TotalTrimMs(trimRegions, duration))

\* totalFrames = Math.ceil(effectiveDuration * frameRate)
TotalFrames(trimRegions, duration, frameRate) ==
    (getEffectiveDurationMs(trimRegions, duration) * frameRate + 999) \div 1000

(***************************************************************************)
(* AudioExtractor. An AudioBuffer is                                       *)
(*   [sampleRate, numberOfChannels, length, data]                          *)
(* where data[c] lists the content of channel c as runs [ch, from, to]:    *)
(* the samples from..to-1 of channel ch of the decoded buffer; ch = 0 is a *)
(* run of to - from zero samples (what createBuffer leaves unwritten).     *)
(***************************************************************************)
\* The buffer decodeAudioData returns for a source of `duration` seconds.
DecodedBuffer(sampleRate, channels, duration) ==
    [sampleRate |-> sampleRate, numberOfChannels |-> channels,
     length |-> duration * sampleRate,
     data |-> [c \in 1..channels |->
                 <<[ch |-> c, from |-> 0, to |-> duration * sampleRate]>>]]

\* Math.floor((ms / 1000) * sampleRate); ms is a multiple of 125, so the
\* quotient and the product are exact.
FrameOf(ms, sampleRate) == (ms * sampleRate) \div 1000

\* Math.max(0, endFrame - startFrame) of one region.
RegionLength(region, sampleRate) ==
    Max(0, FrameOf(region.endMs, sampleRate) - FrameOf(region.startMs, sampleRate))

\* "1. 计算总长度": the length of the new buffer.
RECURSIVE DestLength(_, _)
DestLength(trimRegions, sampleRate) ==
    IF trimRegions = <<>> THEN 0
    ELSE RegionLength(Head(trimRegions), sampleRate)
         + DestLength(Tail(trimRegions), sampleRate)

\* The samples one region writes at destOffset for one channel:
\* sourceData.subarray(startFrame, startFrame + length) is cut at the end of
\* the source, and what set() does not write stays zero.
RegionRuns(source, region, channel) ==
    LET startFrame == FrameOf(region.startMs, source.sampleRate)
        length == RegionLength(region, source.sampleRate)
        from == Min(startFrame, source.length)
        to == Min(startFrame + length, source.length)
    IN  (IF to > from THEN <<[ch |-> channel, from |-> from, to |-> to]>> ELSE <<>>)
        \o (IF length > to - from
            THEN <<[ch |-> 0, from |-> 0, to |-> length - (to - from)]>>
            ELSE <<>>)

\* "3. 复制数据" for one channel.
RECURSIVE CopyRegions(_, _, _)
CopyRegions(source, trimRegions, channel) ==
    IF trimRegions = <<>> THEN <<>>
    ELSE RegionRuns(source, Head(trimRegions), channel)
         \o CopyRegions(source, Tail(trimRegions), channel)

\* processTrimRegions without its early returns: a new buffer of the computed
\* length is always built.
ProcessAlwaysBuilds(source, trimRegions) ==
    [sampleRate |-> source.sampleRate,
     numberOfChannels |-> source.numberOfChannels,
     length |-> DestLength(trimRegions, source.sampleRate),
     data |-> [c \in 1..source.numberOfChannels |->
                 CopyRegions(source, trimRegions, c)]]

\* processTrimRegions(source)
processTrimRegions(source, trimRegions) ==
    IF trimRegions = <<>> THEN source
    ELSE LET totalFrames == DestLength(trimRegions, source.sampleRate)
         IN  IF totalFrames = 0 THEN source
             ELSE [sampleRate |-> source.sampleRate,
                   numberOfChannels |-> source.numberOfChannels,
                   length |-> totalFrames,
                   data |-> [c \in 1..source.numberOfChannels |->
                               CopyRegions(source, trimRegions, c)]]

\* (offset / sampleRate) * 1_000_000 as the integer AudioData keeps.
AudioTimestampUs(offset, sampleRate) ==
    LET g == GCD(1000000, sampleRate)
    IN  (offset * (1000000 \div g)) \div (sampleRate \div g)

\* getAllEncodedChunks(): one encoded unit per block of SAMPLES_PER_CHUNK
\* samples, in submission order.
EncodedChunks(buffer) ==
    LET n == (buffer.length + SAMPLES_PER_CHUNK - 1) \div SAMPLES_PER_CHUNK
    IN  [j \in 1..n |->
           LET offset == (j - 1) * SAMPLES_PER_CHUNK
           IN  [offset |-> offset,
                length |-> Min(SAMPLES_PER_CHUNK, buffer.length - offset),
                timestamp |-> AudioTimestampUs(offset, buffer.sampleRate)]]

(***************************************************************************)
(* The exporter as a state machine.                                        *)
(*                                                                         *)
(* JavaScript runs one task to completion: between two awaits nothing else *)
(* runs. pc names where export() stands. At the pcs of AwaitPcs export()   *)
(* is suspended in an await and callbacks (encoder output, encoder error,  *)
(* mux completion) and cancel() may run. The other pcs are places in the   *)
(* synchronous code between two awaits: an action runs from the await that *)
(* resumed to the next await (Run), as the JavaScript task does.           *)
(***************************************************************************)
VARIABLES
    cfg,      \* this.config and the source: duration (s), frameRate,
              \* trimRegions, sampleRate, channels, onProgress; throwTurns:
              \* the turns of the frame loop in which a frame may throw
    pc,       \* where export() stands
    this,     \* the fields of the VideoExporter (FALSE for null)
    loc,      \* local variables of export() and recordSegment()
    enc,      \* the VideoEncoder object: state, frames accepted and not yet output
    mux,      \* the VideoMuxer object: writes in flight, units received, finalize calls
    ae,       \* the AudioExtractor object: rawAudioBuffer, processedBuffer
    obs,      \* what an observer of this export has seen so far
    result,   \* what export() resolved to: "none" while it has not
    zoom,     \* applyZoomTransform: its parameters and the camera container
              \* and blur filter it writes to
    aenc,     \* one call of getAllEncodedChunks(): its AudioEncoder, the
              \* blocks submitted, the chunks collected, what it resolved to
    rec,      \* useScreenRecorder: the refs and the MediaRecorder
    ipc       \* the main process: isRecording, mouseClicks, the tracking
              \* interval and the uIOhook listeners

vars == <<cfg, pc, this, loc, enc, mux, ae, obs, result, zoom, aenc, rec, ipc>>

AwaitPcs == {"loadVideo", "rendererInit", "isConfigSupported", "audioDecode",
             "muxerInit", "getAllEncodedChunks", "segSeeked", "bpTimeout",
             "frameSeeked", "renderFrame", "addAudioChunk", "flush",
             "finalAddAudioChunk", "promiseAll", "finalize"}

NoBuffer == [sampleRate |-> 0, numberOfChannels |-> 0, length |-> 0, data |-> <<>>]

\* The fields as the class declares them.
ThisInit ==
    [decoder |-> FALSE, renderer |-> FALSE, encoder |-> FALSE, muxer |-> FALSE,
     audioExtractor |-> FALSE, videoElement |-> FALSE, cancelled |-> FALSE,
     encodeQueue |-> 0, chunkCount |-> 0,
     muxingPromises |-> [length |-> 0, unsettled |-> 0],
     hasAudio |-> FALSE, audioChunks |-> <<>>, videoDescription |-> FALSE]

\* second: where a second invocation of export(), made while the first is
\* suspended, stands: "none", "loadVideo" or "done".
LocInit ==
    [segments |-> <<>>, totalFrames |-> 0, segIdx |-> 0, currentVideoTime |-> DZero,
     encoded |-> <<>>, timestamp |-> DZero, currentOutputTimestampUs |-> DZero,
     finalArr |-> <<>>, finalIdx |-> 0,
     awaited |-> 0,
     second |-> "none"]

\* configurable: whether the platform can realise the configuration passed
\* to configure(). When it cannot, configure() still returns with the state
\* "configured"; the encoder outputs nothing and closes itself with a
\* NotSupportedError through the error callback in a later task.
EncInit == [state |-> "none", pending |-> 0, hardwareAcceleration |-> "none",
            configureCalls |-> 0, configurable |-> TRUE]

MuxInit == [unsettled |-> 0, audio |-> <<>>, finalizeCalls |-> 0]

AeInit == [rawAudioBuffer |-> NoBuffer, processedBuffer |-> NoBuffer]

\* live counts the VideoFileDecoder, FrameRenderer and AudioExtractor
\* objects that were constructed and not yet destroyed; decoded is what
\* audioExtractor.decode() resolved to ("none" before it has); throwAt is
\* the turn of the frame loop, counted from 1 over the whole export, in which
\* the last exception was thrown (0 when none was); hardwareSupport is what
\* VideoEncoder.isConfigSupported reported ("none" before it has); muxErrors
\* counts the addVideoChunk calls that rejected; firstChunk is the metadata
\* the first video chunk was handed to the muxer with ("none" before one
\* was): "orchestrator" for the decoderConfig built in the output callback,
\* "encoder" for the meta argument of the callback as it came; headers
\* counts the chunks handed over with the decoderConfig built there; run
\* numbers the invocations of export() on the instance, one after the other,
\* and previous is what the invocation before this one resolved to;
\* erroredAt is the await export() was suspended at when the encoder's error
\* callback fired ("none" while it has not).
ObsInit == [submitted |-> <<>>, progress |-> <<>>, cancelCalled |-> FALSE,
            cancelledAt |-> "none", throws |-> 0, iterations |-> 0, allAudio |-> <<>>,
            live |-> [decoder |-> 0, renderer |-> 0, audioExtractor |-> 0],
            decoded |-> "none", throwAt |-> 0, hardwareSupport |-> "none",
            muxErrors |-> 0, firstChunk |-> "none", headers |-> 0,
            run |-> 1, previous |-> "none", erroredAt |-> "none"]

\* A cleanup() that releases nothing.
CleanupKeepsAll(t) == t

\* cleanup(): the fields afterwards.
cleanup(t) ==
    [t EXCEPT !.encoder = FALSE, !.decoder = FALSE, !.renderer = FALSE,
              !.audioExtractor = FALSE, !.muxer = FALSE, !.encodeQueue = 0,
              !.muxingPromises = [length |-> 0, unsettled |-> 0],
              !.chunkCount = 0, !.hasAudio = FALSE, !.audioChunks = <<>>,
              !.videoElement = FALSE, !.videoDescription = FALSE]

\* The start of export() with this.cancelled left as the last run set it.
StartKeepsCancelled(t) == [cleanup(t) EXCEPT !.decoder = TRUE]

\* export(): this.cleanup(); this.cancelled = false; this.decoder = new
\* VideoFileDecoder()
StartOfExport(t) == [cleanup(t) EXCEPT !.cancelled = FALSE, !.decoder = TRUE]

\* cleanup(): if (this.encoder.state === "configured") this.encoder.close()
EncoderAfterCleanup(t, e) ==
    IF t.encoder /\ e.state = "configured"
    THEN [e EXCEPT !.state = "closed", !.pending = 0]
    ELSE e

\* cleanup(): this.audioExtractor.destroy()
ExtractorAfterCleanup(t, a) ==
    IF t.audioExtractor THEN AeInit ELSE a

\* cleanup(): this.decoder.destroy(), this.renderer.destroy() and
\* this.audioExtractor.destroy() reach the objects the fields refer to.
LiveAfterCleanup(t, live) ==
    [decoder |-> IF t.decoder THEN live.decoder - 1 ELSE live.decoder,
     renderer |-> IF t.renderer THEN live.renderer - 1 ELSE live.renderer,
     audioExtractor |-> IF t.audioExtractor THEN live.audioExtractor - 1
                        ELSE live.audioExtractor]

\* The state as one record, for the synchronous code to work on.
Cur == [pc |-> pc, this |-> this, loc |-> loc, enc |-> enc, mux |-> mux,
        ae |-> ae, obs |-> obs, result |-> result]

\* The state an action leaves.
Becomes(s) ==
    /\ pc' = s.pc
    /\ this' = s.this
    /\ loc' = s.loc
    /\ enc' = s.enc
    /\ mux' = s.mux
    /\ ae' = s.ae
    /\ obs' = s.obs
    /\ result' = s.result
    /\ UNCHANGED <<cfg, zoom, aenc, rec, ipc>>

\* return / catch, then finally { this.cleanup() }: export() resolves to r.
Return(s, r) ==
    [s EXCEPT !.result = r,
              !.this = cleanup(s.this),
              !.enc = EncoderAfterCleanup(s.this, s.enc),
              !.ae = ExtractorAfterCleanup(s.this, s.ae),
              !.obs.live = LiveAfterCleanup(s.this, @),
              !.pc = "done"]

At(s, p) == [s EXCEPT !.pc = p]

(***************************************************************************)
(* Bounds of the model: what the environment may do in one export.         *)
(***************************************************************************)
\* Frames whose render or encode submission throws.
MaxThrows == 1
\* Video chunk writes in flight at the muxer at one time.
MaxMuxUnsettled == 1
\* Video chunk writes that the muxer rejects.
MaxMuxErrors == 1
\* The turns of the frame loop, from the first on, in which a frame of a
\* short export may throw or a chunk write may be rejected (cfg.throwTurns).
MaxThrowTurns == 12

(***************************************************************************)
(* recordSegment(): the pieces of one frame.                               *)
(***************************************************************************)
\* frameDuration = 1_000_000 / this.config.frameRate
frameDuration(frameRate) == DDiv(1000000, frameRate)

\* this.chunkCount * frameDuration
Timestamp(chunkCount, frameRate) == DMulInt(chunkCount, frameDuration(frameRate))

\* The timestamp of new VideoFrame(canvas, { timestamp }): a long long, the
\* integer part of the Number it is given.
VideoFrameTimestamp(timestamp) == DTrunc(timestamp)

\* A key frame once per second of output.
IsKeyFrameEverySecond(chunkCount, frameRate) == chunkCount % frameRate = 0

\* isKeyFrame = this.chunkCount % (this.config.frameRate * 2) === 0
IsKeyFrame(chunkCount, frameRate) == chunkCount % (frameRate * 2) = 0

\* BackpressureHolds with the wait starting one frame later.
BackpressureLate(encodeQueue, cancelled) ==
    encodeQueue > MAX_ENCODE_QUEUE + 1 /\ ~cancelled

\* while (this.encodeQueue > this.MAX_ENCODE_QUEUE && !this.cancelled)
BackpressureHolds(encodeQueue, cancelled) ==
    encodeQueue > MAX_ENCODE_QUEUE /\ ~cancelled

\* ChunkCountAfterFrame with this.chunkCount++ moved out of the try block:
\* a frame that threw still takes a frame index.
ChunkCountAlwaysAdvances(chunkCount, threw) == chunkCount + 1

\* this.chunkCount after a frame whose try block ran to its end (threw = FALSE)
\* or was left by an exception before this.chunkCount++ (threw = TRUE).
ChunkCountAfterFrame(chunkCount, threw) ==
    IF threw THEN chunkCount ELSE chunkCount + 1

\* percentage: Math.min(99, (this.chunkCount / totalFrames) * 100), as num/den.
Percentage(chunkCount, totalFrames) ==
    IF totalFrames = 0 THEN [num |-> 99, den |-> 1]
    ELSE [num |-> Min(99 * totalFrames, chunkCount * 100), den |-> totalFrames]

\* "Progress - 每 5 帧更新一次": the events after the frame that made
\* this.chunkCount = chunkCount.
ProgressAfterFrame(progress, chunkCount, totalFrames) ==
    IF cfg.onProgress /\ chunkCount % 5 = 0
    THEN Append(progress, [currentFrame |-> chunkCount, totalFrames |-> totalFrames,
                           percentage |-> Percentage(chunkCount, totalFrames)])
    ELSE progress

\* AudioDue with < in the place of <=.
AudioDueStrict(unit, currentOutputTimestampUs) ==
    DLess(DFromInt(unit.timestamp),
          DAdd(currentOutputTimestampUs, DFromInt(lookAheadUs)))

\* audioChunks[0].chunk.timestamp <= currentOutputTimestampUs + lookAheadUs
AudioDue(unit, currentOutputTimestampUs) ==
    DLeq(DFromInt(unit.timestamp),
         DAdd(currentOutputTimestampUs, DFromInt(lookAheadUs)))

\* "5. 移动到下一帧": currentVideoTime += frameInterval
NextFrameTime(currentVideoTime, frameRate) ==
    DAdd(currentVideoTime, DDiv(1, frameRate))

(***************************************************************************)
(* The synchronous code of export() and recordSegment(), as steps on the   *)
(* state record.                                                           *)
(***************************************************************************)
\* for (const segment of segments) { if (this.cancelled) break;
\*   this.videoElement.currentTime = segment.start; await 'seeked' ...
\* The assignment throws a TypeError when this.videoElement is null.
SegmentLoop(s) ==
    IF s.loc.segIdx > Len(s.loc.segments) \/ s.this.cancelled
    THEN At(s, "afterLoop")
    ELSE IF ~s.this.videoElement THEN Return(s, "error")
    ELSE At(s, "segSeeked")

\* while (currentVideoTime < endTime && !this.cancelled); on exit
\* recordSegment() returns and the for loop takes the next segment.
FrameLoop(s) ==
    IF /\ DLess(s.loc.currentVideoTime, s.loc.segments[s.loc.segIdx].end)
       /\ ~s.this.cancelled
    THEN At(s, "backpressure")
    ELSE [s EXCEPT !.pc = "segmentLoop", !.loc.segIdx = @ + 1]

\* "1. 等待编码队列有空间"; if (this.cancelled) break; "2. Seek 到目标时间".
Backpressure(s) ==
    IF BackpressureHolds(s.this.encodeQueue, s.this.cancelled)
    THEN At(s, "bpTimeout")
    ELSE IF s.this.cancelled
    THEN [s EXCEPT !.pc = "segmentLoop", !.loc.segIdx = @ + 1]
    ELSE At(s, "frameSeeked")

\* "3. 采样当前帧" up to await this.renderer!.renderFrame(...), which throws a
\* TypeError, caught by the try block, when this.renderer is null.
Sample(s) ==
    [s EXCEPT !.pc = IF s.this.renderer THEN "renderFrame" ELSE "interleave",
              !.loc.timestamp = Timestamp(s.this.chunkCount, cfg.frameRate)]

\* The try block without its catch: the exception of a frame leaves
\* recordSegment() and reaches export()'s catch block.
RenderedUncaught(s, outcome) ==
    IF outcome # "ok" \/ ~s.this.renderer
    THEN Return([s EXCEPT !.obs.throws = @ + 1,
                          !.obs.throwAt = s.obs.iterations + 1], "error")
    ELSE LET accepted == s.this.encoder /\ s.enc.state = "configured"
         IN  [s EXCEPT
                !.pc = "interleave",
                !.this.encodeQueue = IF accepted THEN @ + 1 ELSE @,
                !.this.chunkCount = @ + 1,
                !.enc.pending = IF accepted THEN @ + 1 ELSE @,
                !.obs.submitted =
                    IF accepted
                    THEN Append(@, [timestamp |-> VideoFrameTimestamp(s.loc.timestamp),
                                    keyFrame |-> IsKeyFrame(s.this.chunkCount, cfg.frameRate)])
                    ELSE @,
                !.obs.progress =
                    ProgressAfterFrame(@, s.this.chunkCount + 1, s.loc.totalFrames)]

\* The try block after renderFrame has settled. outcome is "ok",
\* "renderThrows" (renderFrame rejected) or "encodeThrows" (encoder.encode
\* threw, after this.encodeQueue++). this.renderer!.getCanvas() throws a
\* TypeError when this.renderer is null.
Rendered(s, outcome) ==
    LET threw == outcome # "ok" \/ ~s.this.renderer
        submits == /\ outcome # "renderThrows"
                   /\ s.this.renderer
                   /\ s.this.encoder
                   /\ s.enc.state = "configured"
        accepted == submits /\ outcome = "ok"
        count == ChunkCountAfterFrame(s.this.chunkCount, threw)
    IN  [s EXCEPT
           !.pc = "interleave",
           !.this.encodeQueue = IF submits THEN @ + 1 ELSE @,
           !.this.chunkCount = count,
           !.enc.pending = IF accepted THEN @ + 1 ELSE @,
           !.obs.throws = IF outcome # "ok" THEN @ + 1 ELSE @,
           !.obs.throwAt = IF outcome # "ok" THEN s.obs.iterations + 1 ELSE @,
           !.obs.submitted =
               IF accepted
               THEN Append(@, [timestamp |-> VideoFrameTimestamp(s.loc.timestamp),
                               keyFrame |-> IsKeyFrame(s.this.chunkCount, cfg.frameRate)])
               ELSE @,
           !.obs.progress =
               IF threw THEN @ ELSE ProgressAfterFrame(@, count, s.loc.totalFrames)]

\* The end of one turn of the while loop of recordSegment().
EndOfFrame(s) ==
    [s EXCEPT !.pc = "frameLoop",
              !.loc.currentVideoTime = NextFrameTime(@, cfg.frameRate),
              !.obs.iterations = @ + 1]

\* "4. 交织写入音频": if (this.muxer && this.audioChunks.length > 0)
Interleave(s) ==
    IF s.this.muxer /\ s.this.audioChunks # <<>>
    THEN [s EXCEPT !.pc = "audioWhile",
                   !.loc.currentOutputTimestampUs =
                       Timestamp(s.this.chunkCount, cfg.frameRate)]
    ELSE EndOfFrame(s)

\* while (this.audioChunks.length > 0 && this.audioChunks[0].chunk.timestamp
\*        <= currentOutputTimestampUs + lookAheadUs) { shift; await addAudioChunk }
\* this.muxer.addAudioChunk throws a TypeError, outside the try block, when
\* this.muxer is null.
AudioWhile(s) ==
    IF /\ s.this.audioChunks # <<>>
       /\ AudioDue(Head(s.this.audioChunks), s.loc.currentOutputTimestampUs)
    THEN LET shifted == [s EXCEPT !.this.audioChunks = Tail(@)]
         IN  IF ~s.this.muxer THEN Return(shifted, "error")
             ELSE [shifted EXCEPT !.pc = "addAudioChunk",
                                  !.mux.audio = Append(@, Head(s.this.audioChunks))]
    ELSE EndOfFrame(s)

\* The code after the main loop without the flush of the encoder.
AfterLoopNoFlush(s) ==
    IF s.this.cancelled THEN Return(s, "cancelled") ELSE At(s, "finalAudio")

\* if (this.cancelled) return { success: false, error: "Export cancelled" };
\* if (this.encoder && this.encoder.state === "configured") await flush().
AfterLoop(s) ==
    IF s.this.cancelled THEN Return(s, "cancelled")
    ELSE IF s.this.encoder /\ s.enc.state = "configured" THEN At(s, "flush")
    ELSE At(s, "finalAudio")

\* finalize without waiting for the muxing promises.
PromiseAllSkipped(s) ==
    [s EXCEPT !.pc = "promiseAll", !.loc.awaited = 0]

\* await Promise.all(this.muxingPromises): the promises of the array as it
\* is now are awaited.
PromiseAll(s) ==
    [s EXCEPT !.pc = "promiseAll", !.loc.awaited = s.this.muxingPromises.unsettled]

\* The code after the flush without the loop over the remaining audio.
FinalAudioSkipped(s) == PromiseAll(s)

\* "写入剩余的所有音频": if (this.audioChunks.length > 0 && this.muxer)
FinalAudio(s) ==
    IF s.this.audioChunks # <<>> /\ s.this.muxer
    THEN [s EXCEPT !.pc = "finalFor", !.loc.finalArr = s.this.audioChunks,
                   !.loc.finalIdx = 1]
    ELSE PromiseAll(s)

\* for (const { chunk, meta } of this.audioChunks) await addAudioChunk: the
\* loop walks the array it started on; this.muxer is read at every turn and
\* the call throws a TypeError when it is null. Then this.audioChunks = [].
FinalFor(s) ==
    IF s.loc.finalIdx > Len(s.loc.finalArr)
    THEN PromiseAll([s EXCEPT !.this.audioChunks = <<>>])
    ELSE IF ~s.this.muxer THEN Return(s, "error")
    ELSE [s EXCEPT !.pc = "finalAddAudioChunk",
                   !.mux.audio = Append(@, s.loc.finalArr[s.loc.finalIdx])]

\* Run the synchronous code from s to the next await or to the end.
RECURSIVE Run(_)
Run(s) ==
    CASE s.pc = "segmentLoop"  -> Run(SegmentLoop(s))
      [] s.pc = "frameLoop"    -> Run(FrameLoop(s))
      [] s.pc = "backpressure" -> Run(Backpressure(s))
      [] s.pc = "interleave"   -> Run(Interleave(s))
      [] s.pc = "audioWhile"   -> Run(AudioWhile(s))
      [] s.pc = "afterLoop"    -> Run(AfterLoop(s))
      [] s.pc = "finalAudio"   -> Run(FinalAudio(s))
      [] s.pc = "finalFor"     -> Run(FinalFor(s))
      [] OTHER                 -> s

(***************************************************************************)
(* export(): one action per await that resumes. "1. 初始化"                 *)
(***************************************************************************)
\* export() is called: cleanup(), cancelled = false, new VideoFileDecoder,
\* await loadVideo.
ExportCall ==
    /\ pc = "idle"
    /\ Becomes([Cur EXCEPT
          !.this = StartOfExport(this),
          !.enc = EncoderAfterCleanup(this, enc),
          !.ae = ExtractorAfterCleanup(this, ae),
          !.obs.live = [LiveAfterCleanup(this, @) EXCEPT !.decoder = @ + 1],
          !.pc = "loadVideo"])

\* loadVideo settles. this.decoder.getVideoElement() throws a TypeError when
\* cleanup() has cleared this.decoder meanwhile. Then new FrameRenderer,
\* await renderer.initialize().
LoadVideoDone(ok) ==
    /\ pc = "loadVideo"
    /\ Becomes(IF ~ok \/ ~this.decoder THEN Return(Cur, "error")
               ELSE [Cur EXCEPT !.this.videoElement = TRUE, !.this.renderer = TRUE,
                                !.obs.live.renderer = @ + 1,
                                !.pc = "rendererInit"])

\* renderer.initialize() settles; initializeEncoder() runs up to its await.
RendererInitDone(ok) ==
    /\ pc = "rendererInit"
    /\ Becomes(IF ~ok THEN Return(Cur, "error")
               ELSE [Cur EXCEPT
                       !.this.encodeQueue = 0,
                       !.this.muxingPromises = [length |-> 0, unsettled |-> 0],
                       !.this.chunkCount = 0,
                       !.this.encoder = TRUE,
                       !.enc = [EncInit EXCEPT !.state = "unconfigured"],
                       !.pc = "isConfigSupported"])

\* The configuration is used as it was probed, whatever the probe reported.
AccelerationAsProbed(supported) == "prefer-hardware"

\* The hardwareAcceleration the encoder is configured with.
ChosenAcceleration(supported) ==
    IF supported THEN "prefer-hardware" ELSE "prefer-software"

\* VideoEncoder.isConfigSupported settles; this.encoder.configure(...), which
\* throws a TypeError when this.encoder is null; new AudioExtractor; await
\* decode().
ConfigSupportDone(supported, configurable) ==
    /\ pc = "isConfigSupported"
    /\ supported => configurable
    /\ Becomes(IF ~this.encoder
               THEN Return([Cur EXCEPT !.obs.hardwareSupport =
                                IF supported THEN "supported" ELSE "unsupported"],
                           "error")
               ELSE [Cur EXCEPT
                       !.obs.hardwareSupport =
                           IF supported THEN "supported" ELSE "unsupported",
                       !.enc.state = "configured",
                       !.enc.hardwareAcceleration = ChosenAcceleration(supported),
                       !.enc.configureCalls = @ + 1,
                       !.enc.configurable = configurable,
                       !.this.audioExtractor = TRUE,
                       !.obs.live.audioExtractor = @ + 1,
                       !.ae = AeInit,
                       !.pc = "audioDecode"])

\* AudioExtractor.decode() as it leaves the extractor: true with both
\* buffers set, or false from the catch.
decode(ok) ==
    IF ok
    THEN LET raw == DecodedBuffer(cfg.sampleRate, cfg.channels, cfg.duration)
         IN  [rawAudioBuffer |-> raw,
              processedBuffer |-> processTrimRegions(raw, cfg.trimRegions)]
    ELSE ae

\* decode() with its catch block removed: the failure reaches export()'s own
\* catch block.
AudioDecodeThrows(ok) ==
    /\ pc = "audioDecode"
    /\ Becomes(IF ~ok THEN Return(Cur, "error")
               ELSE [Cur EXCEPT !.ae = decode(ok),
                                !.this.hasAudio = ok,
                                !.obs.decoded = "true",
                                !.this.muxer = TRUE,
                                !.mux = MuxInit,
                                !.pc = "muxerInit"])

\* decode() resolves to ok; new VideoMuxer; await muxer.initialize().
AudioDecodeDone(ok) ==
    /\ pc = "audioDecode"
    /\ Becomes([Cur EXCEPT !.ae = decode(ok),
                           !.this.hasAudio = ok,
                           !.obs.decoded = IF ok THEN "true" ELSE "false",
                           !.this.muxer = TRUE,
                           !.mux = MuxInit,
                           !.pc = "muxerInit"])

\* The preparation without the wait for the encoded audio: the main loop
\* starts at once.
PrepareNoWait(s) ==
    [s EXCEPT
       !.loc.totalFrames = TotalFrames(cfg.trimRegions, cfg.duration, cfg.frameRate),
       !.loc.segments = PlanSegments(cfg.trimRegions, cfg.duration),
       !.loc.segIdx = 1,
       !.loc.encoded = EncodedChunks(s.ae.processedBuffer),
       !.pc = "segmentLoop"]

\* "2. 准备导出参数", "3. 计算片段", "3.5 预先编码音频": getAllEncodedChunks()
\* reads this.processedBuffer when it is called.
Prepare(s) ==
    [s EXCEPT
       !.loc.totalFrames = TotalFrames(cfg.trimRegions, cfg.duration, cfg.frameRate),
       !.loc.segments = PlanSegments(cfg.trimRegions, cfg.duration),
       !.loc.segIdx = 1,
       !.loc.encoded = EncodedChunks(s.ae.processedBuffer),
       !.pc = IF s.this.hasAudio /\ s.this.audioExtractor
              THEN "getAllEncodedChunks" ELSE "segmentLoop"]

\* muxer.initialize() settles. this.videoElement.playbackRate = 1.0 throws a
\* TypeError when cleanup() has cleared this.videoElement meanwhile.
MuxerInitDone(ok) ==
    /\ pc = "muxerInit"
    /\ Becomes(IF ~ok \/ ~this.videoElement THEN Return(Cur, "error")
               ELSE Run(Prepare(Cur)))

\* getAllEncodedChunks() settles: it resolves to the units of the buffer it
\* read when it was called, or rejects on an AudioEncoder error.
AudioEncodeDone(ok) ==
    /\ pc = "getAllEncodedChunks"
    /\ Becomes(IF ~ok THEN Return(Cur, "error")
               ELSE Run([Cur EXCEPT !.this.audioChunks = loc.encoded,
                                    !.obs.allAudio = loc.encoded,
                                    !.pc = "segmentLoop"]))

(***************************************************************************)
(* "4. MAIN LOOP" and recordSegment()                                      *)
(***************************************************************************)
\* 'seeked' fires for the segment; recordSegment() starts at segment.start.
\* onSeeked calls this.videoElement!.removeEventListener before resolve():
\* when cleanup() has cleared this.videoElement meanwhile the handler throws
\* and the promise is never resolved.
SegSeeked ==
    /\ pc = "segSeeked"
    /\ this.videoElement
    /\ Becomes(Run([Cur EXCEPT
          !.loc.currentVideoTime = loc.segments[loc.segIdx].start,
          !.pc = "frameLoop"]))

\* setTimeout(resolve, 10) of the backpressure wait fires.
BpTimeout ==
    /\ pc = "bpTimeout"
    /\ Becomes(Run(At(Cur, "backpressure")))

\* 'seeked' fires for the frame (or the position was already there).
FrameSeeked ==
    /\ pc = "frameSeeked"
    /\ Becomes(Run(Sample(Cur)))

\* renderFrame settles.
RenderDone(outcome) ==
    /\ pc = "renderFrame"
    /\ outcome # "ok" => obs.throws < MaxThrows /\ obs.iterations < cfg.throwTurns
    /\ Becomes(Run(Rendered(Cur, outcome)))

\* muxer.addAudioChunk settles in the interleaving loop.
AddAudioChunkDone ==
    /\ pc = "addAudioChunk"
    /\ Becomes(Run(At(Cur, "audioWhile")))

(***************************************************************************)
(* export(): after the main loop.                                          *)
(***************************************************************************)
\* encoder.flush() resolves once every accepted frame has been output.
FlushResolved ==
    /\ pc = "flush"
    /\ enc.state = "configured"
    /\ enc.configurable
    /\ enc.pending = 0
    /\ Becomes(Run(At(Cur, "finalAudio")))

\* encoder.flush() rejects when the encoder was closed meanwhile.
FlushRejected ==
    /\ pc = "flush"
    /\ enc.state = "closed"
    /\ Becomes(Return(Cur, "error"))

\* muxer.addAudioChunk settles in the final loop.
FinalAddAudioChunkDone ==
    /\ pc = "finalAddAudioChunk"
    /\ Becomes(Run([Cur EXCEPT !.loc.finalIdx = @ + 1, !.pc = "finalFor"]))

\* await Promise.all(this.muxingPromises) resolves: every promise of the
\* array it was given has settled. Then this.muxer!.finalize() is called; it
\* throws a TypeError when this.muxer is null.
PromiseAllDone ==
    /\ pc = "promiseAll"
    /\ loc.awaited = 0
    /\ Becomes(IF ~this.muxer THEN Return(Cur, "error")
               ELSE [Cur EXCEPT !.mux.finalizeCalls = @ + 1, !.pc = "finalize"])

\* "导出完成后发送 100% 进度"
FinalProgress(progress, totalFrames) ==
    IF cfg.onProgress
    THEN Append(progress, [currentFrame |-> totalFrames, totalFrames |-> totalFrames,
                           percentage |-> [num |-> 100, den |-> 1]])
    ELSE progress

\* muxer.finalize() settles: the blob, the final progress event, success;
\* or it rejects.
FinalizeDone(ok) ==
    /\ pc = "finalize"
    /\ Becomes(IF ok
               THEN Return([Cur EXCEPT
                              !.obs.progress = FinalProgress(@, loc.totalFrames)],
                           "success")
               ELSE Return(Cur, "error"))

(***************************************************************************)
(* What runs while export() is suspended.                                  *)
(***************************************************************************)
\* cancel(): this.cancelled = true; this.cleanup()
cancel ==
    /\ pc \in AwaitPcs
    /\ ~obs.cancelCalled
    /\ Becomes([Cur EXCEPT
          !.this = [cleanup(this) EXCEPT !.cancelled = TRUE],
          !.enc = EncoderAfterCleanup(this, enc),
          !.ae = ExtractorAfterCleanup(this, ae),
          !.obs.live = LiveAfterCleanup(this, @),
          !.obs.cancelCalled = TRUE,
          !.obs.cancelledAt = pc])

\* const isFirstChunk = this.chunkCount === 0
IsFirstChunk(chunkCount) == chunkCount = 0

\* if (isFirstChunk && this.videoDescription) addVideoChunk(chunk, metadata)
\* with the decoderConfig built from this.config, this.videoDescription and
\* this.videoColorSpace; else addVideoChunk(chunk, meta).
ChunkMetadata(isFirstChunk, videoDescription) ==
    IF isFirstChunk /\ videoDescription THEN "orchestrator" ELSE "encoder"

\* The VideoEncoder output callback for one accepted frame: the description
\* of meta.decoderConfig, which the encoder supplies with its first output,
\* is kept in this.videoDescription; the muxing promise is created and
\* pushed, this.encodeQueue--. Inside the promise this.muxer!.addVideoChunk
\* throws a TypeError, caught there, when this.muxer is null.
EncoderOutput ==
    /\ pc \in AwaitPcs
    /\ enc.state = "configured"
    /\ enc.configurable
    /\ enc.pending > 0
    /\ mux.unsettled < MaxMuxUnsettled
    /\ LET metadata == ChunkMetadata(IsFirstChunk(this.chunkCount), TRUE)
       IN  Becomes([Cur EXCEPT
              !.enc.pending = @ - 1,
              !.this.videoDescription = TRUE,
              !.this.muxingPromises =
                  [length |-> @.length + 1,
                   unsettled |-> IF this.muxer THEN @.unsettled + 1 ELSE @.unsettled],
              !.this.encodeQueue = @ - 1,
              !.mux.unsettled = IF this.muxer THEN @ + 1 ELSE @,
              !.obs.firstChunk = IF this.muxer /\ @ = "none" THEN metadata ELSE @,
              !.obs.headers = IF this.muxer /\ metadata = "orchestrator"
                              THEN @ + 1 ELSE @])

\* The muxing promise without its try/catch: a rejection of addVideoChunk
\* rejects the muxing promise, and with it the Promise.all that awaits it.
MuxSettledUncaught(ok) ==
    /\ pc \in AwaitPcs
    /\ mux.unsettled > 0
    /\ ~ok => obs.muxErrors < MaxMuxErrors /\ obs.iterations < cfg.throwTurns
    /\ Becomes(IF ~ok /\ pc = "promiseAll"
               THEN Return([Cur EXCEPT !.obs.muxErrors = @ + 1], "error")
               ELSE [Cur EXCEPT
                       !.mux.unsettled = @ - 1,
                       !.obs.muxErrors = IF ok THEN @ ELSE @ + 1,
                       !.this.muxingPromises.unsettled = Max(0, @ - 1),
                       !.loc.awaited = IF pc = "promiseAll" THEN Max(0, @ - 1) ELSE @])

\* muxer.addVideoChunk of one muxing promise settles: it resolves, or it
\* rejects and the catch inside the promise logs the error; the muxing
\* promise is fulfilled either way.
MuxSettled(ok) ==
    /\ pc \in AwaitPcs
    /\ mux.unsettled > 0
    /\ ~ok => obs.muxErrors < MaxMuxErrors /\ obs.iterations < cfg.throwTurns
    /\ Becomes([Cur EXCEPT
          !.mux.unsettled = @ - 1,
          !.obs.muxErrors = IF ok THEN @ ELSE @ + 1,
          !.this.muxingPromises.unsettled = Max(0, @ - 1),
          !.loc.awaited = IF pc = "promiseAll" THEN Max(0, @ - 1) ELSE @])

\* The VideoEncoder error callback: the encoder is closed, this.cancelled =
\* true. It runs in a task of its own, for an encoding error or for the
\* NotSupportedError of a configuration the platform cannot realise.
EncoderError ==
    /\ pc \in AwaitPcs
    /\ enc.state = "configured"
    /\ Becomes([Cur EXCEPT !.enc.state = "closed", !.enc.pending = 0,
                           !.this.cancelled = TRUE, !.obs.erroredAt = pc])

(***************************************************************************)
(* applyZoomTransform (videoPlayback/zoomTransform.ts).                    *)
(* Stage sizes, focus and motionIntensity are Numbers; the content         *)
(* rectangle and the zoom scale are whole numbers in the model.            *)
(***************************************************************************)
\* baseMask.x + focusX * baseMask.width, and the same for y.
focusStagePx(origin, focus, size) ==
    DAdd(DFromInt(origin), DMulInt(size, focus))

\* stageSize.width / 2
stageCenter(dimension) == DHalf(dimension)

\* The camera position that leaves the focus point where it is: 0 on the axis.
CameraAtOrigin(center, focusPx, zoomScale) == DSigned(FALSE, DZero)

\* stageCenterX - focusStagePxX * zoomScale
cameraAxis(center, focusPx, zoomScale) ==
    DSub(center, DMulInt(zoomScale, focusPx))

\* 0.0005 as a Number, cut to the grid of the model: a motionIntensity of
\* the model is greater than 0.0005 exactly when it is greater than this.
MotionThreshold == <<0, 524, 301989, 931135>>

\* The blur without the clamp: motionIntensity * 120 when shouldBlur.
MotionBlurUnclamped(p) ==
    IF p.motionBlurEnabled /\ p.isPlaying /\ DLess(MotionThreshold, p.motionIntensity)
    THEN DMulInt(120, p.motionIntensity)
    ELSE DZero

\* Math.min(6, motionIntensity * 120) when shouldBlur, else 0.
motionBlur(p) ==
    LET shouldBlur == /\ p.motionBlurEnabled
                      /\ p.isPlaying
                      /\ DLess(MotionThreshold, p.motionIntensity)
        scaled == DMulInt(120, p.motionIntensity)
    IN  IF shouldBlur
        THEN (IF DLess(DFromInt(6), scaled) THEN DFromInt(6) ELSE scaled)
        ELSE DZero

\* applyZoomTransform(p) on a camera container and a blur filter: what it
\* leaves in them.
applyZoomTransform(p, cameraContainer, blurFilter) ==
    IF \/ p.stageSize.width = DZero \/ p.stageSize.height = DZero
       \/ p.baseMask.width <= 0 \/ p.baseMask.height <= 0
    THEN [cameraContainer |-> cameraContainer, blurFilter |-> blurFilter]
    ELSE LET focusStagePxX == focusStagePx(p.baseMask.x, p.focusX, p.baseMask.width)
             focusStagePxY == focusStagePx(p.baseMask.y, p.focusY, p.baseMask.height)
             stageCenterX == stageCenter(p.stageSize.width)
             stageCenterY == stageCenter(p.stageSize.height)
         IN  [cameraContainer |->
                 [scale |-> p.zoomScale,
                  position |-> [x |-> cameraAxis(stageCenterX, focusStagePxX, p.zoomScale),
                                y |-> cameraAxis(stageCenterY, focusStagePxY, p.zoomScale)]],
              blurFilter |->
                 IF p.blurFilter THEN [blur |-> motionBlur(p)] ELSE blurFilter]

\* The camera container and the blur filter before the call: unscaled, at
\* the origin, not blurring.
ZoomIdle ==
    [params |-> [zoomScale |-> 1],
     cameraContainer |-> [scale |-> 1,
                          position |-> [x |-> DSigned(FALSE, DZero),
                                        y |-> DSigned(FALSE, DZero)]],
     blurFilter |-> [blur |-> DZero]]

(***************************************************************************)
(* Spec: exports under every interleaving of callbacks, failures and       *)
(* cancel().                                                               *)
(***************************************************************************)
\* Bounds of the model: the long export of Spec.
ExportDuration == 14
ExportFrameRate == 5

Config(duration, frameRate, trimRegions) ==
    [duration |-> duration, frameRate |-> frameRate, trimRegions |-> trimRegions,
     sampleRate |-> 8192, channels |-> 1, onProgress |-> TRUE, throwTurns |-> 0]

\* A short export: frames may throw in its first MaxThrowTurns turns.
Short(config) == [config EXCEPT !.throwTurns = MaxThrowTurns]

\* The exports of Spec: one long enough to fill the encode queue, with one
\* trim region, in which no frame throws; a short one with no trim region,
\* at a frame rate whose frame duration is not a whole number of
\* microseconds; a short one of two segments whose audio outlasts the video.
ExportConfigs ==
    { Config(ExportDuration, ExportFrameRate, <<[startMs |-> 4000, endMs |-> 5000]>>),
      Short(Config(2, 3, <<>>)),
      Short(Config(6, 5, <<[startMs |-> 1000, endMs |-> 5000]>>)) }

\* Before getAllEncodedChunks() is called: no AudioEncoder; offset is the
\* local variable of processChunks; submitted are the blocks passed to
\* encoder.encode, pending how many of them have not been output yet;
\* chunks is the local array the output callback pushes to; flushed tells
\* that encoder.flush() has resolved; returned is what the promise resolved
\* to (<<>> before it has).
AudioEncoderIdle ==
    [state |-> "none", offset |-> 0, submitted |-> <<>>, pending |-> 0,
     chunks |-> <<>>, flushed |-> FALSE, returned |-> <<>>]

\* useScreenRecorder before a recording was started. state is the state of
\* mediaRecorder.current ("none" while there is no recorder); startTime,
\* pausedTime and pauseStartTime are the refs of the hook; chunks is the
\* length of chunks.current; stopping says that the recorder's 'stop' event
\* is still to be delivered; now is what Date.now() returns, the time since
\* the hook was mounted. fixed is whether fixWebmDuration was called and
\* duration what it was passed. pausedFor is the time the recorder has spent
\* paused since the recording started, stoppedAt is Date.now() at the call
\* of stopRecording and firedAt is Date.now() in recorder.onstop.
RecorderIdle ==
    [state |-> "none", startTime |-> 0, pausedTime |-> 0, pauseStartTime |-> 0,
     chunks |-> 0, stopping |-> FALSE, now |-> 0, fixed |-> FALSE, duration |-> 0,
     pausedFor |-> 0, stoppedAt |-> 0, firedAt |-> 0]

\* The main process before 'set-recording-state' was invoked.
\* mouseTrackingInterval is the timer handle kept by the module (0 for
\* null) and timers the handles of the intervals that are set and not
\* cleared; listeners is the number of 'mousedown' listeners registered on
\* uIOhook and hookRunning whether the hook delivers events; mouseClicks
\* holds the button of each entry and mousePositions counts the samples;
\* starts counts the invocations with recording = true and delivered the
\* 'mousedown' events the hook has emitted.
HandlersIdle ==
    [isRecordingMouse |-> FALSE, mouseTrackingInterval |-> 0, timers |-> {},
     listeners |-> 0, hookRunning |-> FALSE, mouseClicks |-> <<>>,
     mousePositions |-> 0, starts |-> 0, delivered |-> 0]

\* The exporter after its constructor.
Constructed ==
    /\ pc = "idle"
    /\ this = ThisInit
    /\ loc = LocInit
    /\ enc = EncInit
    /\ mux = MuxInit
    /\ ae = AeInit
    /\ obs = ObsInit
    /\ result = "none"
    /\ zoom = ZoomIdle
    /\ aenc = AudioEncoderIdle
    /\ rec = RecorderIdle
    /\ ipc = HandlersIdle

Init == cfg \in ExportConfigs /\ Constructed

Next ==
    \/ ExportCall
    \/ \E ok \in BOOLEAN : LoadVideoDone(ok)
    \/ \E ok \in BOOLEAN : RendererInitDone(ok)
    \/ \E supported, configurable \in BOOLEAN : ConfigSupportDone(supported, configurable)
    \/ \E ok \in BOOLEAN : AudioDecodeDone(ok)
    \/ \E ok \in BOOLEAN : MuxerInitDone(ok)
    \/ \E ok \in BOOLEAN : AudioEncodeDone(ok)
    \/ SegSeeked
    \/ BpTimeout
    \/ FrameSeeked
    \/ \E outcome \in {"ok", "renderThrows", "encodeThrows"} : RenderDone(outcome)
    \/ AddAudioChunkDone
    \/ FlushResolved
    \/ FlushRejected
    \/ FinalAddAudioChunkDone
    \/ PromiseAllDone
    \/ \E ok \in BOOLEAN : FinalizeDone(ok)
    \/ cancel
    \/ EncoderOutput
    \/ \E ok \in BOOLEAN : MuxSettled(ok)
    \/ EncoderError

Spec == Init /\ [][Next]_vars

(***************************************************************************)
(* SpecReentry: export() is called again on the same exporter while the    *)
(* first call is suspended. The source of the second call fails to load,   *)
(* so that the second call is its first and its last step only.            *)
(***************************************************************************)
\* The second export() up to its await: cleanup(), this.cancelled = false,
\* new VideoFileDecoder, await loadVideo.
SecondExportCall ==
    /\ pc \in AwaitPcs
    /\ loc.second = "none"
    /\ Becomes([Cur EXCEPT
          !.this = StartOfExport(this),
          !.enc = EncoderAfterCleanup(this, enc),
          !.ae = ExtractorAfterCleanup(this, ae),
          !.obs.live = [LiveAfterCleanup(this, @) EXCEPT !.decoder = @ + 1],
          !.loc.second = "loadVideo"])

\* loadVideo of the second export() rejects: catch, return { success: false },
\* finally { this.cleanup() }.
SecondLoadVideoFailed ==
    /\ loc.second = "loadVideo"
    /\ Becomes([Cur EXCEPT
          !.this = cleanup(this),
          !.enc = EncoderAfterCleanup(this, enc),
          !.ae = ExtractorAfterCleanup(this, ae),
          !.obs.live = LiveAfterCleanup(this, @),
          !.loc.second = "done"])

InitReentry ==
    cfg = Config(6, 5, <<[startMs |-> 1000, endMs |-> 5000]>>) /\ Constructed

NextReentry ==
    \/ ExportCall
    \/ \E ok \in BOOLEAN : LoadVideoDone(ok)
    \/ \E ok \in BOOLEAN : RendererInitDone(ok)
    \/ \E supported \in BOOLEAN : ConfigSupportDone(supported, TRUE)
    \/ \E ok \in BOOLEAN : AudioDecodeDone(ok)
    \/ \E ok \in BOOLEAN : MuxerInitDone(ok)
    \/ \E ok \in BOOLEAN : AudioEncodeDone(ok)
    \/ SegSeeked
    \/ FrameSeeked
    \/ RenderDone("ok")
    \/ AddAudioChunkDone
    \/ FlushResolved
    \/ FlushRejected
    \/ FinalAddAudioChunkDone
    \/ PromiseAllDone
    \/ \E ok \in BOOLEAN : FinalizeDone(ok)
    \/ EncoderOutput
    \/ MuxSettled(TRUE)
    \/ SecondExportCall
    \/ SecondLoadVideoFailed

SpecReentry == InitReentry /\ [][NextReentry]_vars

(***************************************************************************)
(* SpecRecorder: useScreenRecorder (hooks/useScreenRecorder.ts), a         *)
(* recording that is started, paused and resumed any number of times and   *)
(* stopped, while the clock runs.                                          *)
(***************************************************************************)
\* Date.now() goes up to MaxClock; chunks.current holds up to MaxChunks blobs.
MaxClock == 4
MaxChunks == 2

RecorderUnchanged == UNCHANGED <<cfg, pc, this, loc, enc, mux, ae, obs, result, zoom, aenc, ipc>>

\* A millisecond passes.
Tick ==
    /\ rec.now < MaxClock
    /\ rec' = [rec EXCEPT !.now = @ + 1,
                          !.pausedFor = IF rec.state = "paused" THEN @ + 1 ELSE @]
    /\ RecorderUnchanged

\* startRecording, from chunks.current = [] on: a new MediaRecorder,
\* recorder.start(1000); startTime.current = Date.now(). The recording that
\* was stopped before has delivered its 'stop' event.
startRecording ==
    /\ rec.state \in {"none", "inactive"}
    /\ ~rec.stopping
    /\ rec' = [rec EXCEPT !.state = "recording", !.chunks = 0, !.startTime = rec.now,
                          !.fixed = FALSE, !.duration = 0, !.pausedFor = 0,
                          !.stoppedAt = 0, !.firedAt = 0]
    /\ RecorderUnchanged

\* recorder.ondataavailable: a blob of the time slice, or the last blob
\* after stop(); if (e.data && e.data.size > 0) chunks.current.push(e.data).
ondataavailable(size) ==
    /\ rec.state = "recording" \/ rec.stopping
    /\ rec.chunks < MaxChunks
    /\ rec' = [rec EXCEPT !.chunks = IF size > 0 THEN @ + 1 ELSE @]
    /\ RecorderUnchanged

\* togglePause
togglePause ==
    /\ rec.state \in {"recording", "paused"}
    /\ rec' = IF rec.state = "recording"
              THEN [rec EXCEPT !.state = "paused", !.pauseStartTime = rec.now]
              ELSE [rec EXCEPT !.state = "recording",
                               !.pausedTime = @ + (rec.now - rec.pauseStartTime)]
    /\ RecorderUnchanged

\* stopRecording: mediaRecorder.current.stop() queues the 'stop' event;
\* pausedTime.current = 0.
stopRecording ==
    /\ rec.state \in {"recording", "paused"}
    /\ rec' = [rec EXCEPT !.state = "inactive", !.stopping = TRUE, !.pausedTime = 0,
                          !.stoppedAt = rec.now]
    /\ RecorderUnchanged

\* recorder.onstop, up to the call of fixWebmDuration(buggyBlob, duration).
onstop ==
    /\ rec.stopping
    /\ rec' = IF rec.chunks = 0
              THEN [rec EXCEPT !.stopping = FALSE, !.firedAt = rec.now]
              ELSE [rec EXCEPT !.stopping = FALSE, !.fixed = TRUE, !.firedAt = rec.now,
                               !.duration = (rec.now - rec.startTime) - rec.pausedTime,
                               !.chunks = 0, !.pausedTime = 0]
    /\ RecorderUnchanged

InitRecorder == cfg = Config(1, 1, <<>>) /\ Constructed

NextRecorder ==
    \/ Tick
    \/ startRecording
    \/ \E size \in {0, 1} : ondataavailable(size)
    \/ togglePause
    \/ stopRecording
    \/ onstop

SpecRecorder == InitRecorder /\ [][NextRecorder]_vars

(***************************************************************************)
(* SpecHandlers: the 'set-recording-state' handler of the main process     *)
(* (electron/ipc/handlers.ts), invoked for the start and the stop of one   *)
(* recording after the other, the mouse hook and the sampling timers.      *)
(***************************************************************************)
\* Recordings started, 'mousedown' events emitted, samples per recording.
MaxStarts == 2
MaxMouseDowns == 3
MaxSamples == 1

HandlersUnchanged == UNCHANGED <<cfg, pc, this, loc, enc, mux, ae, obs, result, zoom, aenc, rec>>

\* if (e.button === 1) button = 'left' else if (e.button === 2) ... 'right'
\* else if (e.button === 3) ... 'middle'; 'left' otherwise.
buttonOf(button) ==
    IF button = 2 THEN "right" ELSE IF button = 3 THEN "middle" ELSE "left"

\* ipcMain.handle('set-recording-state', (_, recording) => ...). The renderer
\* invokes it with true when a recording has started and with false when it
\* is stopped; uIOhook.start() and uIOhook.stop() may throw, which is caught.
setRecordingState(recording, hookOk) ==
    /\ recording # ipc.isRecordingMouse
    /\ recording => ipc.starts < MaxStarts
    /\ ipc' = IF recording
              THEN [ipc EXCEPT !.mousePositions = 0, !.mouseClicks = <<>>,
                               !.isRecordingMouse = TRUE,
                               !.listeners = @ + 1,
                               !.hookRunning = @ \/ hookOk,
                               !.timers = @ \cup {ipc.starts + 1},
                               !.mouseTrackingInterval = ipc.starts + 1,
                               !.starts = @ + 1]
              ELSE [ipc EXCEPT !.isRecordingMouse = FALSE,
                               !.timers = @ \ {ipc.mouseTrackingInterval},
                               !.mouseTrackingInterval = 0,
                               !.hookRunning = @ /\ ~hookOk]
    /\ HandlersUnchanged

\* The hook emits 'mousedown': every listener registered with uIOhook.on
\* runs, and each pushes an entry if isRecordingMouse.
mousedown(button) ==
    /\ ipc.hookRunning
    /\ ipc.delivered < MaxMouseDowns
    /\ ipc' = [ipc EXCEPT
          !.delivered = @ + 1,
          !.mouseClicks =
              IF ipc.isRecordingMouse
              THEN @ \o [i \in 1..ipc.listeners |-> buttonOf(button)]
              ELSE @]
    /\ HandlersUnchanged

\* The callback of a setInterval(..., 33) that was not cleared.
mouseTrackingTick(timer) ==
    /\ timer \in ipc.timers
    /\ ipc.mousePositions < MaxSamples
    /\ ipc' = [ipc EXCEPT !.mousePositions = @ + 1]
    /\ HandlersUnchanged

InitHandlers == cfg = Config(1, 1, <<>>) /\ Constructed

NextHandlers ==
    \/ \E recording, hookOk \in BOOLEAN : setRecordingState(recording, hookOk)
    \/ \E button \in 1..3 : mousedown(button)
    \/ \E timer \in 1..MaxStarts : mouseTrackingTick(timer)

SpecHandlers == InitHandlers /\ [][NextHandlers]_vars

(***************************************************************************)
(* What the platform owes an export in progress: a promise the export      *)
(* awaits settles, a seek completes and fires 'seeked', a timer fires, an  *)
(* accepted frame is output, a mux write settles, and an encoder that      *)
(* cannot realise its configuration reports the error. cancel() and an     *)
(* encoding error of a working encoder may or may not happen.              *)
(***************************************************************************)
\* One of these steps can happen and change the state: the guards of the
\* actions that settle an await, of EncoderOutput, of MuxSettled and of
\* EncoderError on a configuration that cannot be realised.
\* The timer of the backpressure wait changes nothing while the queue is
\* still above the limit.
Resumable ==
    \/ pc \in {"idle", "loadVideo", "rendererInit", "isConfigSupported", "audioDecode",
               "muxerInit", "getAllEncodedChunks", "frameSeeked", "renderFrame",
               "addAudioChunk", "finalAddAudioChunk", "finalize"}
    \/ pc = "segSeeked" /\ this.videoElement
    \/ pc = "bpTimeout" /\ ~BackpressureHolds(this.encodeQueue, this.cancelled)
    \/ pc = "flush" /\ enc.state = "configured" /\ enc.configurable /\ enc.pending = 0
    \/ pc = "flush" /\ enc.state = "closed"
    \/ pc = "promiseAll" /\ loc.awaited = 0
    \/ /\ pc \in AwaitPcs
       /\ \/ /\ enc.state = "configured" /\ enc.configurable /\ enc.pending > 0
             /\ mux.unsettled < MaxMuxUnsettled
          \/ mux.unsettled > 0
          \/ enc.state = "configured" /\ ~enc.configurable

(***************************************************************************)
(* SpecReuse: export() is called again on the instance after it resolved.  *)
(***************************************************************************)
\* Invocations of export() on one instance, one after the other.
MaxRuns == 2

\* export() is called after the previous invocation resolved: its local
\* variables are new, the observer starts again, the muxer of the last run
\* is no longer referenced.
ExportAgain ==
    /\ pc = "done"
    /\ obs.run < MaxRuns
    /\ Becomes([Cur EXCEPT
          !.this = StartOfExport(this),
          !.enc = EncoderAfterCleanup(this, enc),
          !.ae = ExtractorAfterCleanup(this, ae),
          !.obs = [ObsInit EXCEPT
                     !.live = [LiveAfterCleanup(this, obs.live) EXCEPT !.decoder = @ + 1],
                     !.run = obs.run + 1,
                     !.previous = result],
          !.loc = LocInit,
          !.mux = MuxInit,
          !.result = "none",
          !.pc = "loadVideo"])

\* cancel() is called between two invocations: this.cancelled = true;
\* this.cleanup().
CancelBetweenRuns ==
    /\ pc = "done"
    /\ obs.run < MaxRuns
    /\ ~this.cancelled
    /\ Becomes([Cur EXCEPT
          !.this = [cleanup(this) EXCEPT !.cancelled = TRUE],
          !.enc = EncoderAfterCleanup(this, enc),
          !.ae = ExtractorAfterCleanup(this, ae),
          !.obs.live = LiveAfterCleanup(this, @)])

\* The short export of one segment: its 6 or 7 frames never fill the encode
\* queue and its audio is all interleaved before the flush, so the
\* backpressure timeout and the final audio loop have no step to take.
InitReuse == cfg = Short(Config(2, 3, <<>>)) /\ Constructed

NextReuse ==
    \/ ExportCall
    \/ \E ok \in BOOLEAN : LoadVideoDone(ok)
    \/ \E ok \in BOOLEAN : RendererInitDone(ok)
    \/ \E supported, configurable \in BOOLEAN : ConfigSupportDone(supported, configurable)
    \/ \E ok \in BOOLEAN : AudioDecodeDone(ok)
    \/ \E ok \in BOOLEAN : MuxerInitDone(ok)
    \/ \E ok \in BOOLEAN : AudioEncodeDone(ok)
    \/ SegSeeked
    \/ FrameSeeked
    \/ \E outcome \in {"ok", "renderThrows", "encodeThrows"} : RenderDone(outcome)
    \/ AddAudioChunkDone
    \/ FlushResolved
    \/ FlushRejected
    \/ PromiseAllDone
    \/ \E ok \in BOOLEAN : FinalizeDone(ok)
    \/ cancel
    \/ EncoderOutput
    \/ \E ok \in BOOLEAN : MuxSettled(ok)
    \/ EncoderError
    \/ ExportAgain
    \/ CancelBetweenRuns

SpecReuse == InitReuse /\ [][NextReuse]_vars

(***************************************************************************)
(* SpecPlan: segment planning on every trim list of the bounds.            *)
(***************************************************************************)
\* Both ends of a trim region lie on this grid (ms).
PlanGrid == {1000 * k : k \in 0..(MaxPlanDuration + 1)}

\* Every region on the grid: well-formed, empty (endMs = startMs), reversed
\* (endMs < startMs), inside and beyond the source.
PlanRegions == [startMs : PlanGrid, endMs : PlanGrid]

\* Every list of at most MaxTrims regions, in every order.
PlanTrimLists == UNION {[1..n -> PlanRegions] : n \in 0..MaxTrims}

\* The sources of durations 1..maxDuration seconds with each of the lists.
PlanConfigs(maxDuration, trimLists) ==
    {Config(d, ExportFrameRate, t) : d \in 1..maxDuration, t \in trimLists}

InitPlan == cfg \in PlanConfigs(MaxPlanDuration, PlanTrimLists) /\ Constructed

\* export(), "2. 准备导出参数" and "3. 计算片段", on the configuration.
PlanStep ==
    /\ pc = "idle"
    /\ pc' = "planned"
    /\ loc' = [loc EXCEPT
          !.segments = PlanSegments(cfg.trimRegions, cfg.duration),
          !.totalFrames = TotalFrames(cfg.trimRegions, cfg.duration, cfg.frameRate)]
    /\ UNCHANGED <<cfg, this, enc, mux, ae, obs, result, zoom, aenc, rec, ipc>>

NextPlan == PlanStep

SpecPlan == InitPlan /\ [][NextPlan]_vars

(***************************************************************************)
(* SpecAudio: AudioExtractor.decode() on every trim list of the bounds.    *)
(***************************************************************************)
\* Channels of the decoded buffer: 1..MaxChannels.
MaxChannels == 2

\* Sample rates of the decoded buffer (per second; multiples of 8, so that
\* a region end on the grid is a whole sample index).
AudioSampleRates == {8, 16}

AudioConfigs(configs) ==
    {[config EXCEPT !.sampleRate = r, !.channels = c] :
        config \in configs, r \in AudioSampleRates, c \in 1..MaxChannels}

InitAudio ==
    cfg \in AudioConfigs(PlanConfigs(MaxPlanDuration, PlanTrimLists)) /\ Constructed

\* decode() succeeds: rawAudioBuffer and processedBuffer are set.
DecodeStep ==
    /\ pc = "idle"
    /\ pc' = "decoded"
    /\ ae' = decode(TRUE)
    /\ UNCHANGED <<cfg, this, loc, enc, mux, obs, result, zoom, aenc, rec, ipc>>

NextAudio == DecodeStep

SpecAudio == InitAudio /\ [][NextAudio]_vars

(***************************************************************************)
(* SpecZoom: applyZoomTransform on every parameter record of the bounds.   *)
(***************************************************************************)
\* Stage dimensions: n and n / 10 pixels for n in 0..MaxStage.
MaxStage == 2
\* The content rectangle: origin 0 or 1, sizes 0..MaxMask.
MaxMask == 2
\* Zoom scales 1..MaxScale.
MaxScale == 3

StageDimensions(maxStage) == {DDiv(n, d) : n \in 0..maxStage, d \in {1, 10}}

\* Normalized focus coordinates: the ends, the quarters of the scenario, and
\* a value that is not a binary fraction.
FocusValues == {DZero, DDiv(1, 4), DDiv(3, 4), DDiv(3, 10), DFromInt(1)}

\* The blur side of the parameters: no filter; a filter while paused; a
\* filter while playing with a small and with a large motionIntensity; a
\* filter that an earlier call left blurring, while paused and with motion
\* blur switched off. blurBefore is the blur of the filter object passed.
MotionParams ==
    { [blurFilter |-> FALSE, isPlaying |-> TRUE, motionBlurEnabled |-> TRUE,
       motionIntensity |-> DDiv(1, 10), blurBefore |-> DZero],
      [blurFilter |-> TRUE, isPlaying |-> FALSE, motionBlurEnabled |-> TRUE,
       motionIntensity |-> DDiv(1, 10), blurBefore |-> DZero],
      [blurFilter |-> TRUE, isPlaying |-> TRUE, motionBlurEnabled |-> TRUE,
       motionIntensity |-> DDiv(1, 100), blurBefore |-> DZero],
      [blurFilter |-> TRUE, isPlaying |-> TRUE, motionBlurEnabled |-> TRUE,
       motionIntensity |-> DDiv(1, 10), blurBefore |-> DZero],
      [blurFilter |-> TRUE, isPlaying |-> FALSE, motionBlurEnabled |-> TRUE,
       motionIntensity |-> DDiv(1, 10), blurBefore |-> DFromInt(6)],
      [blurFilter |-> TRUE, isPlaying |-> TRUE, motionBlurEnabled |-> FALSE,
       motionIntensity |-> DDiv(1, 10), blurBefore |-> DFromInt(6)] }

\* The parameter records: every width with the heights, origins and focus
\* of the set, the y axis with origin 0.
ZoomParams(maxStage, maxMask, maxScale) ==
    { [stageSize |-> [width |-> sw, height |-> sh],
       baseMask |-> [x |-> mx, y |-> 0, width |-> mw, height |-> mh],
       zoomScale |-> s, focusX |-> fx, focusY |-> fy,
       blurFilter |-> m.blurFilter, isPlaying |-> m.isPlaying,
       motionBlurEnabled |-> m.motionBlurEnabled,
       motionIntensity |-> m.motionIntensity, blurBefore |-> m.blurBefore] :
        sw \in StageDimensions(maxStage), sh \in StageDimensions(maxStage),
        mx \in {0, 1}, mw \in 0..maxMask, mh \in 0..maxMask,
        s \in 1..maxScale, fx \in FocusValues, fy \in {DDiv(3, 4), DDiv(3, 10)},
        m \in MotionParams }

InitZoom ==
    /\ cfg = Config(1, 1, <<>>)
    /\ pc = "idle"
    /\ this = ThisInit
    /\ loc = LocInit
    /\ enc = EncInit
    /\ mux = MuxInit
    /\ ae = AeInit
    /\ obs = ObsInit
    /\ result = "none"
    /\ aenc = AudioEncoderIdle
    /\ rec = RecorderIdle
    /\ ipc = HandlersIdle
    /\ \E p \in ZoomParams(MaxStage, MaxMask, MaxScale) :
          zoom = [ZoomIdle EXCEPT !.params = p, !.blurFilter.blur = p.blurBefore]

\* One call of applyZoomTransform with the parameters.
ZoomStep ==
    /\ pc = "idle"
    /\ pc' = "zoomed"
    /\ LET after == applyZoomTransform(zoom.params, zoom.cameraContainer,
                                       zoom.blurFilter)
       IN  zoom' = [zoom EXCEPT !.cameraContainer = after.cameraContainer,
                                !.blurFilter = after.blurFilter]
    /\ UNCHANGED <<cfg, this, loc, enc, mux, ae, obs, result, aenc, rec, ipc>>

NextZoom == ZoomStep

SpecZoom == InitZoom /\ [][NextZoom]_vars

(***************************************************************************)
(* SpecEncode: AudioExtractor.getAllEncodedChunks() on every processed     *)
(* buffer of the bounds. processChunks runs from one await to the next in  *)
(* one step; the output and error callbacks of the AudioEncoder run while  *)
(* it is suspended.                                                        *)
(***************************************************************************)
\* Whole blocks of the buffer: 0..MaxBlocks, followed by 0, 1 or
\* SAMPLES_PER_CHUNK - 1 more samples.
MaxBlocks == 3

\* Sample rates: at 1000 Hz the loop yields every 5000 samples.
EncodeSampleRates == {1000, 8192, 44100}

EncodeLengths(maxBlocks) ==
    {k * SAMPLES_PER_CHUNK + r :
        k \in 0..maxBlocks, r \in {0, 1, SAMPLES_PER_CHUNK - 1}} \ {0}

\* this.processedBuffer: null (NoBuffer) or a buffer of the bounds.
EncodeBuffers(maxBlocks) ==
    {NoBuffer} \cup
    {[sampleRate |-> r, numberOfChannels |-> c, length |-> n,
      data |-> [ch \in 1..c |-> <<[ch |-> ch, from |-> 0, to |-> n]>>]] :
        r \in EncodeSampleRates, c \in 1..MaxChannels, n \in EncodeLengths(maxBlocks)}

\* A turn of the loop that always takes SAMPLES_PER_CHUNK samples.
EncodeFullBlock(a, buffer) ==
    [a EXCEPT
       !.submitted = Append(@, [offset |-> a.offset, length |-> SAMPLES_PER_CHUNK,
                                timestamp |-> AudioTimestampUs(a.offset, buffer.sampleRate)]),
       !.pending = @ + 1,
       !.offset = @ + SAMPLES_PER_CHUNK]

\* One turn of the while loop of processChunks: length = Math.min(
\* SAMPLES_PER_CHUNK, totalSamples - offset); timestampUs = (offset /
\* sampleRate) * 1_000_000; encoder.encode(audioData); offset += length.
EncodeBlock(a, buffer) ==
    LET length == Min(SAMPLES_PER_CHUNK, buffer.length - a.offset)
    IN  [a EXCEPT
           !.submitted = Append(@, [offset |-> a.offset, length |-> length,
                                    timestamp |-> AudioTimestampUs(a.offset, buffer.sampleRate)]),
           !.pending = @ + 1,
           !.offset = @ + length]

\* if (offset % (sampleRate * 5) < length) await new Promise(r => setTimeout(r, 0))
Yields(offset, length, sampleRate) == offset % (sampleRate * 5) < length

\* processChunks from the offset it stands at to its next await: the
\* setTimeout of a turn of the loop, or encoder.flush() after the loop.
RECURSIVE processChunks(_, _)
processChunks(a, buffer) ==
    IF a.offset < buffer.length
    THEN LET b == EncodeBlock(a, buffer)
         IN  IF Yields(b.offset, b.offset - a.offset, buffer.sampleRate)
             THEN [aenc |-> b, pc |-> "audioYield"]
             ELSE processChunks(b, buffer)
    ELSE [aenc |-> a, pc |-> "audioFlush"]

InitEncode ==
    /\ cfg = Config(1, 1, <<>>)
    /\ pc = "idle"
    /\ this = ThisInit
    /\ loc = LocInit
    /\ enc = EncInit
    /\ mux = MuxInit
    /\ \E b \in EncodeBuffers(MaxBlocks) :
          ae = [rawAudioBuffer |-> b, processedBuffer |-> b]
    /\ obs = ObsInit
    /\ result = "none"
    /\ zoom = ZoomIdle
    /\ aenc = AudioEncoderIdle
    /\ rec = RecorderIdle
    /\ ipc = HandlersIdle

\* getAllEncodedChunks() is called: if (!this.processedBuffer) return [];
\* otherwise new AudioEncoder, configure, processChunks().
getAllEncodedChunks ==
    /\ pc = "idle"
    /\ IF ae.processedBuffer = NoBuffer
       THEN pc' = "audioReturned" /\ aenc' = aenc
       ELSE LET r == processChunks([AudioEncoderIdle EXCEPT !.state = "configured"],
                                   ae.processedBuffer)
            IN  pc' = r.pc /\ aenc' = r.aenc
    /\ UNCHANGED <<cfg, this, loc, enc, mux, ae, obs, result, zoom, rec, ipc>>

\* The setTimeout(r, 0) of the loop fires: the loop goes on.
AudioYieldDone ==
    /\ pc = "audioYield"
    /\ LET r == processChunks(aenc, ae.processedBuffer)
       IN  pc' = r.pc /\ aenc' = r.aenc
    /\ UNCHANGED <<cfg, this, loc, enc, mux, ae, obs, result, zoom, rec, ipc>>

\* The output callback of the AudioEncoder: chunks.push({ chunk, meta }) for
\* the oldest block not yet output.
AudioEncoderOutput ==
    /\ pc \in {"audioYield", "audioFlush"}
    /\ aenc.state = "configured"
    /\ aenc.pending > 0
    /\ aenc' = [aenc EXCEPT
                  !.chunks = Append(@, aenc.submitted[Len(aenc.submitted) - aenc.pending + 1]),
                  !.pending = @ - 1]
    /\ UNCHANGED <<cfg, pc, this, loc, enc, mux, ae, obs, result, zoom, rec, ipc>>

\* await encoder.flush() resolves once every block has been output; then
\* encoder.close(); resolve(chunks).
AudioFlushResolved ==
    /\ pc = "audioFlush"
    /\ aenc.state = "configured"
    /\ aenc.pending = 0
    /\ pc' = "audioReturned"
    /\ aenc' = [aenc EXCEPT !.flushed = TRUE, !.state = "closed",
                            !.returned = aenc.chunks]
    /\ UNCHANGED <<cfg, this, loc, enc, mux, ae, obs, result, zoom, rec, ipc>>

\* The error callback of the AudioEncoder: the encoder is closed by the
\* platform and the promise rejected.
AudioEncoderError ==
    /\ pc \in {"audioYield", "audioFlush"}
    /\ aenc.state = "configured"
    /\ pc' = "audioRejected"
    /\ aenc' = [aenc EXCEPT !.state = "closed", !.pending = 0]
    /\ UNCHANGED <<cfg, this, loc, enc, mux, ae, obs, result, zoom, rec, ipc>>

NextEncode ==
    \/ getAllEncodedChunks
    \/ AudioYieldDone
    \/ AudioEncoderOutput
    \/ AudioFlushResolved
    \/ AudioEncoderError

SpecEncode == InitEncode /\ [][NextEncode]_vars

(***************************************************************************)
(* SpecFrames: exports in which nothing fails and nobody cancels, while    *)
(* the encoder and the muxer answer at any time.                           *)
(***************************************************************************)
\* The 10-second, 30 fps source with the trim region {2000ms, 4000ms}; a
\* one-second 30 fps source with no trim region; a source whose audio
\* outlasts its video.
FrameConfigs ==
    { Config(10, 30, <<[startMs |-> 2000, endMs |-> 4000]>>),
      Config(1, 30, <<>>),
      Config(4, 5, <<[startMs |-> 0, endMs |-> 3000]>>) }

InitFrames == cfg \in FrameConfigs /\ Constructed

NextFrames ==
    \/ ExportCall
    \/ LoadVideoDone(TRUE)
    \/ RendererInitDone(TRUE)
    \/ \E supported \in BOOLEAN : ConfigSupportDone(supported, TRUE)
    \/ AudioDecodeDone(TRUE)
    \/ MuxerInitDone(TRUE)
    \/ AudioEncodeDone(TRUE)
    \/ SegSeeked
    \/ BpTimeout
    \/ FrameSeeked
    \/ RenderDone("ok")
    \/ AddAudioChunkDone
    \/ FlushResolved
    \/ FinalAddAudioChunkDone
    \/ PromiseAllDone
    \/ FinalizeDone(TRUE)
    \/ EncoderOutput
    \/ MuxSettled(TRUE)

SpecFrames == InitFrames /\ [][NextFrames]_vars

(***************************************************************************)
(* Segment planning (SpecPlan).                                            *)
(***************************************************************************)
\* Every region of the list has 0 <= startMs < endMs <= duration.
WellFormedTrims(trimRegions, duration) ==
    \A i \in DOMAIN trimRegions :
        /\ 0 <= trimRegions[i].startMs
        /\ trimRegions[i].startMs < trimRegions[i].endMs
        /\ trimRegions[i].endMs <= duration * 1000

\* The instant ms lies in one of the segments.
InSegment(ms, segments) ==
    \E i \in DOMAIN segments :
        /\ DLeq(segments[i].start, DDiv(ms, 1000))
        /\ DLess(DDiv(ms, 1000), segments[i].end)

\* The instant ms lies in one of the trim regions.
InTrim(ms, trimRegions) ==
    \E i \in DOMAIN trimRegions :
        trimRegions[i].startMs <= ms /\ ms < trimRegions[i].endMs

\* The middle of every second of the source.
MidSeconds(duration) == {1000 * k + 500 : k \in 0..(duration - 1)}

\* C1: for every list of well-formed trim regions inside the source, in any
\* order, overlapping or nested, an instant of [0, D] lies in a segment
\* exactly when it lies in no trim region.
C1_SegmentsAreComplement ==
    (pc = "planned" /\ WellFormedTrims(cfg.trimRegions, cfg.duration)) =>
        \A ms \in MidSeconds(cfg.duration) :
            InSegment(ms, loc.segments) <=> ~InTrim(ms, cfg.trimRegions)

\* C2: for every trim list the segments are sorted by start, pairwise
\* non-overlapping, each with start < end, and each within [0, duration].
C2_SegmentsOrdered ==
    pc = "planned" =>
        /\ \A i \in DOMAIN loc.segments :
              /\ DLess(loc.segments[i].start, loc.segments[i].end)
              /\ DLeq(DZero, loc.segments[i].start)
              /\ DLeq(loc.segments[i].end, DFromInt(cfg.duration))
        /\ \A i, j \in DOMAIN loc.segments :
              i < j => DLeq(loc.segments[i].end, loc.segments[j].start)

(***************************************************************************)
(* Audio splicing (SpecAudio).                                             *)
(***************************************************************************)
\* The samples of a channel, one by one: <<ch, index>> is sample `index` of
\* channel ch of the decoded buffer, <<0, 0>> a zero sample.
RECURSIVE RunSamples(_)
RunSamples(runs) ==
    IF runs = <<>> THEN <<>>
    ELSE LET r == Head(runs)
         IN  [i \in 1..(r.to - r.from) |->
                 IF r.ch = 0 THEN <<0, 0>> ELSE <<r.ch, r.from + i - 1>>]
             \o RunSamples(Tail(runs))

\* Sample index i lies inside a trim region.
SampleTrimmed(i, trimRegions, sampleRate) ==
    \E k \in DOMAIN trimRegions :
        /\ FrameOf(trimRegions[k].startMs, sampleRate) <= i
        /\ i < FrameOf(trimRegions[k].endMs, sampleRate)

\* The samples of channel c of the decoded buffer outside every trim region,
\* in timeline order.
RetainedSamples(c, length, trimRegions, sampleRate) ==
    SelectSeq([i \in 1..length |-> <<c, i - 1>>],
              LAMBDA x : ~SampleTrimmed(x[2], trimRegions, sampleRate))

\* C3: every channel of the processed buffer is the concatenation, in
\* timeline order, of the samples of the decoded buffer outside every trim
\* region, and holds no sample from inside a trim region.
C3_RetainedAudioOnly ==
    pc = "decoded" =>
        \A c \in 1..cfg.channels :
            RunSamples(ae.processedBuffer.data[c])
              = RetainedSamples(c, ae.rawAudioBuffer.length, cfg.trimRegions,
                                cfg.sampleRate)

\* K: the samples of the decoded buffer the trim regions cover.
TrimmedSampleCount(length, trimRegions, sampleRate) ==
    Cardinality({i \in 0..(length - 1) : SampleTrimmed(i, trimRegions, sampleRate)})

\* C4: for a decoded buffer of N samples and trim regions covering K of
\* them, the processed buffer has N - K samples and the channel count of
\* the decoded buffer.
C4_ProcessedLength ==
    pc = "decoded" =>
        /\ ae.processedBuffer.length
             = ae.rawAudioBuffer.length
               - TrimmedSampleCount(ae.rawAudioBuffer.length, cfg.trimRegions,
                                    cfg.sampleRate)
        /\ ae.processedBuffer.numberOfChannels = ae.rawAudioBuffer.numberOfChannels

RECURSIVE TrimmedMs(_)
TrimmedMs(trimRegions) ==
    IF trimRegions = <<>> THEN 0
    ELSE Head(trimRegions).endMs - Head(trimRegions).startMs
         + TrimmedMs(Tail(trimRegions))

\* C6: a successful export of a D-second source at f fps, with trim regions
\* on frame boundaries, submits exactly (D - trimmed seconds) * f frames;
\* the 10-second 30 fps source with {2000ms, 4000ms} trimmed yields 240.
C6_ExactFrameCount ==
    (pc = "done" /\ result = "success") =>
        Len(obs.submitted) * 1000
          = (cfg.duration * 1000 - TrimmedMs(cfg.trimRegions)) * cfg.frameRate

(***************************************************************************)
(* Backpressure (Spec).                                                    *)
(***************************************************************************)
\* C7: in every reachable state the encode queue depth is at most
\* MAX_ENCODE_QUEUE plus one in-flight submission.
C7_QueueBounded == this.encodeQueue <= MAX_ENCODE_QUEUE + 1

\* The queue stands at MAX_ENCODE_QUEUE + 1 and capture waits.
C7_Witness == this.encodeQueue = MAX_ENCODE_QUEUE + 1 /\ pc = "bpTimeout"

(***************************************************************************)
(* Cancellation (Spec).                                                    *)
(***************************************************************************)
\* C8: if cancel() was called while export() was in progress, export()
\* does not resolve with success and a blob.
C8_CancelNeverSucceeds ==
    (pc = "done" /\ obs.cancelCalled) => result # "success"

(***************************************************************************)
(* Audio interleaving (Spec).                                              *)
(***************************************************************************)
\* The unit's timestamp is at or before chunkCount frame durations plus the
\* lookahead of 500 000 microseconds.
WithinLookahead(unit, chunkCount, frameRate) ==
    (unit.timestamp - 500000) * frameRate <= chunkCount * 1000000

\* export() stands after a turn of the frame loop, before the next frame is
\* rendered, with the muxer in place.
AfterFrameIteration ==
    /\ pc \in {"frameSeeked", "bpTimeout", "segSeeked", "flush"}
    /\ obs.iterations > 0
    /\ this.muxer

\* C9: after each frame iteration the units forwarded to the muxer are
\* exactly the units at or before the current output timestamp plus the
\* lookahead: none at or before the bound is still queued, none beyond it
\* has been forwarded.
C9_AudioInterleaved ==
    AfterFrameIteration =>
        /\ mux.audio \o this.audioChunks = obs.allAudio
        /\ \A i \in DOMAIN mux.audio :
              WithinLookahead(mux.audio[i], this.chunkCount, cfg.frameRate)
        /\ \A i \in DOMAIN this.audioChunks :
              ~WithinLookahead(this.audioChunks[i], this.chunkCount, cfg.frameRate)

\* After a frame iteration some units have been forwarded, the last of them
\* exactly at the bound, and some are still queued.
C9_Witness ==
    /\ AfterFrameIteration
    /\ mux.audio # <<>>
    /\ this.audioChunks # <<>>
    /\ (mux.audio[Len(mux.audio)].timestamp - 500000) * cfg.frameRate
         = this.chunkCount * 1000000

(***************************************************************************)
(* Progress (Spec).                                                        *)
(***************************************************************************)
\* The event reports 100 percent.
IsComplete(event) == event.percentage.num = 100 * event.percentage.den

\* C10: every event before the last reports at most 99 percent; a
\* 100 percent event is emitted once per successful export, after finalize,
\* and never when the export fails or is cancelled.
C10_ProgressCompletion ==
    /\ \A i \in DOMAIN obs.progress :
          IsComplete(obs.progress[i]) =>
              /\ i = Len(obs.progress)
              /\ pc = "done"
              /\ result = "success"
              /\ mux.finalizeCalls > 0
              /\ ~obs.cancelCalled
    /\ \A i \in DOMAIN obs.progress :
          ~IsComplete(obs.progress[i]) =>
              obs.progress[i].percentage.num <= 99 * obs.progress[i].percentage.den
    /\ (pc = "done" /\ result = "success") =>
          /\ obs.progress # <<>>
          /\ IsComplete(obs.progress[Len(obs.progress)])

(***************************************************************************)
(* Release of resources (Spec).                                            *)
(***************************************************************************)
\* C11: when export() has resolved, by success, error or cancellation, the
\* decoder, the video encoder, the renderer and the audio extractor are
\* released (no object is left undestroyed, no encoder is left configured,
\* the references are null) and encodeQueue, chunkCount, muxingPromises and
\* audioChunks are reset.
C11_ReleasedOnExit ==
    pc = "done" =>
        /\ ~this.decoder /\ ~this.encoder /\ ~this.renderer /\ ~this.audioExtractor
        /\ obs.live = [decoder |-> 0, renderer |-> 0, audioExtractor |-> 0]
        /\ enc.state # "configured"
        /\ ae = AeInit
        /\ this.encodeQueue = 0
        /\ this.chunkCount = 0
        /\ this.muxingPromises = [length |-> 0, unsettled |-> 0]
        /\ this.audioChunks = <<>>

(***************************************************************************)
(* Audio decode failure (Spec).                                            *)
(***************************************************************************)
AudioWaits == {"getAllEncodedChunks", "addAudioChunk", "finalAddAudioChunk"}

\* C12: a failed audio decode does not throw: export() goes on from the
\* decode wait to the muxer's initialisation with hasAudio false. From then
\* on no audio unit is encoded or handed to the muxer, and export() is never
\* waiting on an audio operation.
C12_AudioFailureIsolated ==
    /\ [][pc = "audioDecode" => pc' \in {"audioDecode", "muxerInit"}]_vars
    /\ [](obs.decoded = "false" =>
            /\ ~this.hasAudio
            /\ this.audioChunks = <<>>
            /\ obs.allAudio = <<>>
            /\ mux.audio = <<>>
            /\ pc \notin AudioWaits)

\* After a failed audio decode export() went through capture, flush and
\* finalize and resolved with success.
C12_Witness ==
    /\ obs.decoded = "false"
    /\ pc = "done"
    /\ result = "success"
    /\ Len(obs.submitted) > 5
    /\ mux.finalizeCalls = 1

(***************************************************************************)
(* A frame that throws (Spec).                                             *)
(***************************************************************************)
\* C13: when renderFrame or encoder.encode throws for a frame of an export
\* that is not cancelled, the frame is skipped (nothing is submitted for it
\* and the frame counter stays) and export() goes on: with the audio due at
\* this point, then the next frame, the next segment or the flush. It does
\* not exit.
C13_FrameErrorSkipped ==
    [][(obs.throws' = obs.throws + 1 /\ ~this.cancelled) =>
          /\ obs.submitted' = obs.submitted
          /\ this.chunkCount' = this.chunkCount
          /\ pc' \in {"addAudioChunk", "bpTimeout", "frameSeeked", "segSeeked", "flush"}
          /\ result' = "none"]_vars

\* A frame of the first segment threw, frames after it and in the second
\* segment were submitted, and export() resolved with success.
C13_Witness ==
    /\ obs.throws = 1
    /\ Len(loc.segments) = 2
    /\ obs.throwAt \in 1..3
    /\ Len(obs.submitted) >= 8
    /\ pc = "done"
    /\ result = "success"

(***************************************************************************)
(* Choice of the encoder configuration (Spec).                             *)
(***************************************************************************)
\* C14: the encoder is configured at most once per export, and exactly once
\* when the probe has answered in an export that was not cancelled before
\* the answer; it is configured for hardware when the probe reported the
\* hardware configuration supported and for software when it did not.
C14_EncoderFallback ==
    /\ enc.configureCalls <= 1
    /\ enc.configureCalls = 0 =>
          enc.hardwareAcceleration = "none" /\ enc.state \in {"none", "unconfigured"}
    /\ (/\ obs.hardwareSupport # "none"
        /\ obs.cancelledAt \notin {"loadVideo", "rendererInit", "isConfigSupported"}) =>
          enc.configureCalls = 1
    /\ enc.configureCalls = 1 =>
          /\ obs.hardwareSupport # "none"
          /\ enc.hardwareAcceleration = "prefer-hardware"
               <=> obs.hardwareSupport = "supported"
          /\ enc.hardwareAcceleration = "prefer-software"
               <=> obs.hardwareSupport = "unsupported"

\* An export whose probe reported the hardware configuration unsupported
\* configured the software path once, submitted frames and resolved with
\* success.
C14_Witness ==
    /\ obs.hardwareSupport = "unsupported"
    /\ enc.hardwareAcceleration = "prefer-software"
    /\ enc.configureCalls = 1
    /\ Len(obs.submitted) > 5
    /\ pc = "done"
    /\ result = "success"

(***************************************************************************)
(* The reported cause (Spec).                                              *)
(***************************************************************************)
\* C15: export() resolves with the cancelled outcome ('Export cancelled')
\* exactly when cancel() was called during the export.
C15_CancelledIffCancel ==
    pc = "done" => (result = "cancelled" <=> obs.cancelCalled)

(***************************************************************************)
(* Backpressure with two thresholds (Spec).                                *)
(***************************************************************************)
\* C16: no frame is taken up while the encode queue is deeper than
\* MAX_ENCODE_QUEUE, and a capture that has paused on it resumes only once
\* the depth is below a low-water mark lower than MAX_ENCODE_QUEUE: whatever
\* that mark is, the depth at the resumption is below MAX_ENCODE_QUEUE itself.
C16_Hysteresis ==
    [][/\ pc' = "frameSeeked" /\ pc # "frameSeeked" =>
             this.encodeQueue' <= MAX_ENCODE_QUEUE
       /\ pc = "bpTimeout" /\ pc' = "frameSeeked" =>
             this.encodeQueue' < MAX_ENCODE_QUEUE]_vars

(***************************************************************************)
(* An encoder that cannot be configured (Spec).                            *)
(***************************************************************************)
\* C17: when the encoder can be configured neither for hardware nor for
\* software, export() ends as a failure and no frame is captured or
\* submitted in it.
C17_AbortBeforeCapture ==
    (obs.hardwareSupport = "unsupported" /\ ~enc.configurable) =>
        /\ obs.submitted = <<>>
        /\ pc \notin {"frameSeeked", "renderFrame"}
        /\ obs.iterations = 0
        /\ pc = "done" => result \in {"error", "cancelled"}

(***************************************************************************)
(* A muxing error of one video chunk (Spec).                               *)
(***************************************************************************)
\* C18: when addVideoChunk rejects for a chunk, the muxing promise is
\* fulfilled all the same: export() stays where it is waiting (the capture
\* loop is not stopped, this.cancelled is not set), a Promise.all waiting on
\* the promise counts it as settled and does not reject, and the export is
\* not turned into a failure.
C18_MuxErrorAbsorbed ==
    [][obs.muxErrors' = obs.muxErrors + 1 =>
          /\ pc' = pc
          /\ result' = "none"
          /\ this.cancelled' = this.cancelled
          /\ this.muxingPromises.unsettled' = Max(0, this.muxingPromises.unsettled - 1)
          /\ pc = "promiseAll" => loc.awaited' = Max(0, loc.awaited - 1)
          /\ UNCHANGED <<obs.submitted, this.chunkCount, this.encodeQueue, enc>>]_vars

\* addVideoChunk rejected for a chunk of an export that went on capturing and
\* resolved with success.
C18_Witness ==
    /\ obs.muxErrors = 1
    /\ Len(obs.submitted) > 5
    /\ mux.finalizeCalls = 1
    /\ pc = "done"
    /\ result = "success"

(***************************************************************************)
(* Degenerate and absent trim regions (SpecPlan).                          *)
(***************************************************************************)
\* The trim list without its regions with endMs <= startMs.
NonDegenerate(trimRegions) ==
    SelectSeq(trimRegions, LAMBDA r : r.endMs > r.startMs)

\* C19: trim regions with endMs <= startMs contribute nothing: the segments
\* planned are those planned for the list with all such regions removed.
C19_DegenerateTrimsIgnored ==
    pc = "planned" =>
        loc.segments = PlanSegments(NonDegenerate(cfg.trimRegions), cfg.duration)

\* C20: with no trim regions the plan is exactly one segment, from 0 to the
\* duration of the source.
C20_NoTrimsOneSegment ==
    (pc = "planned" /\ cfg.trimRegions = <<>>) =>
        loc.segments = <<[start |-> DZero, end |-> DFromInt(cfg.duration)]>>

\* A source of the longest duration of the bounds was planned with an empty
\* trim list.
C20_Witness ==
    /\ pc = "planned"
    /\ cfg.trimRegions = <<>>
    /\ cfg.duration = MaxPlanDuration
    /\ Len(loc.segments) = 1

(***************************************************************************)
(* Audio without trim regions (SpecAudio).                                 *)
(***************************************************************************)
\* C21: with no trim regions processTrimRegions returns the decoded buffer:
\* the processed buffer has its sample rate, length, channel count and
\* content.
C21_NoTrimsSameBuffer ==
    (pc = "decoded" /\ cfg.trimRegions = <<>>) =>
        /\ ae.processedBuffer = ae.rawAudioBuffer
        /\ ae.processedBuffer.length = cfg.duration * cfg.sampleRate
        /\ ae.processedBuffer.numberOfChannels = cfg.channels
        /\ \A c \in 1..cfg.channels :
              RunSamples(ae.processedBuffer.data[c])
                = [i \in 1..ae.rawAudioBuffer.length |-> <<c, i - 1>>]

\* A two-channel source with an empty trim list has been decoded.
C21_Witness ==
    /\ pc = "decoded"
    /\ cfg.trimRegions = <<>>
    /\ cfg.channels = 2
    /\ ae.rawAudioBuffer.length > 0

(***************************************************************************)
(* The focus point under the zoom (SpecZoom).                              *)
(***************************************************************************)
\* Where the camera container puts the content point at normalized focus on
\* one axis: position + scale * (origin + focus * size).
Landing(position, scale, origin, focus, size) ==
    DAddSigned(position, DMulInt(scale, focusStagePx(origin, focus, size)))

LandingX ==
    Landing(zoom.cameraContainer.position.x, zoom.cameraContainer.scale,
            zoom.params.baseMask.x, zoom.params.focusX, zoom.params.baseMask.width)

LandingY ==
    Landing(zoom.cameraContainer.position.y, zoom.cameraContainer.scale,
            zoom.params.baseMask.y, zoom.params.focusY, zoom.params.baseMask.height)

CenterX == DSigned(FALSE, stageCenter(zoom.params.stageSize.width))
CenterY == DSigned(FALSE, stageCenter(zoom.params.stageSize.height))

\* applyZoomTransform was called with positive stage and content dimensions.
Zoomed ==
    /\ pc = "zoomed"
    /\ zoom.params.stageSize.width # DZero /\ zoom.params.stageSize.height # DZero
    /\ zoom.params.baseMask.width > 0 /\ zoom.params.baseMask.height > 0

\* A Number without a fractional part.
Whole(d) == d[2] = 0 /\ d[3] = 0 /\ d[4] = 0

\* The distance of two Numbers is below 2^-40.
Near(a, b) ==
    LET gap == IF a.neg = b.neg
               THEN DSub(a.mag, b.mag).mag
               ELSE DAdd(a.mag, b.mag)
    IN  gap[1] = 0 /\ gap[2] = 0

C23_ExportExclusive ==
    [][(loc.second = "none" /\ loc.second' = "loadVideo") =>
          /\ enc' = enc
          /\ this.encoder' = this.encoder
          /\ this.muxer' = this.muxer
          /\ this.encodeQueue' = this.encodeQueue
          /\ this.chunkCount' = this.chunkCount]_vars

(***************************************************************************)
(* The order of the steps of an export (Spec).                             *)
(***************************************************************************)
CapturePcs == {"segSeeked", "bpTimeout", "frameSeeked", "renderFrame", "addAudioChunk"}

\* The stage of export() a wait belongs to.
StageOf(p) ==
    CASE p = "idle" -> 0
      [] p = "loadVideo" -> 1
      [] p = "rendererInit" -> 2
      [] p = "isConfigSupported" -> 3
      [] p = "audioDecode" -> 4
      [] p = "muxerInit" -> 5
      [] p = "getAllEncodedChunks" -> 6
      [] p \in CapturePcs -> 7
      [] p = "flush" -> 8
      [] p = "finalAddAudioChunk" -> 9
      [] p = "promiseAll" -> 10
      [] p = "finalize" -> 11
      [] p = "done" -> 12

\* From one stage to a later one: the next one, or past the audio encoding
\* or the remaining audio when there is none.
StageFollows(a, b) == b = a + 1 \/ (a = 5 /\ b = 7) \/ (a = 8 /\ b = 10)

\* C24: export() passes its stages in order: source, compositor, encoder,
\* audio decode, muxer, capture, flush, remaining audio, the wait for the
\* mux operations, finalize; it leaves this order only to end without
\* success. Within capture a new segment starts with its seek wait and the
\* segments are taken in list order; the flush starts when all segments are
\* done; frames are submitted only during capture, none once the flush has
\* started; finalize is called at most once, and once in a successful export.
C24_StepOrder ==
    /\ [][/\ StageOf(pc') >= StageOf(pc)
          /\ (StageOf(pc') > StageOf(pc) /\ pc' # "done") =>
                StageFollows(StageOf(pc), StageOf(pc'))
          /\ result' = "success" /\ result # "success" => pc = "finalize"
          /\ obs.submitted' # obs.submitted => pc = "renderFrame"
          /\ loc.segIdx' # loc.segIdx =>
                /\ loc.segIdx' = loc.segIdx + 1
                /\ loc.segIdx > 0 => pc' \in {"segSeeked", "flush", "done"}
          /\ (pc' \in CapturePcs /\ pc \notin CapturePcs) => pc' = "segSeeked"
          /\ (pc' = "flush" /\ pc # "flush") =>
                loc.segIdx' = Len(loc.segments') + 1
          /\ mux.finalizeCalls' # mux.finalizeCalls =>
                pc = "promiseAll" /\ pc' = "finalize" /\ mux.finalizeCalls' = 1]_vars
    /\ []((pc = "done" /\ result = "success") => mux.finalizeCalls = 1)

\* A successful export of two segments with audio left for the end has
\* flushed, written the remaining audio and finalized.
C24_Witness ==
    /\ pc = "done"
    /\ result = "success"
    /\ Len(loc.segments) = 2
    /\ loc.segIdx = 3
    /\ loc.finalIdx > 1
    /\ Len(obs.submitted) > 5
    /\ mux.finalizeCalls = 1

(***************************************************************************)
(* Mux operations and finalize (Spec).                                     *)
(***************************************************************************)
\* C25: while the encoder works, every frame submitted is either still in
\* the encoder or has produced one mux operation collected in
\* muxingPromises; finalize is called only when every submitted frame has
\* produced its mux operation and all of them have settled, and no video
\* chunk is being written while finalize runs.
C25_MuxBeforeFinalize ==
    /\ []((this.encoder /\ enc.state = "configured") =>
            this.muxingPromises.length + enc.pending = Len(obs.submitted))
    /\ [][mux.finalizeCalls' # mux.finalizeCalls =>
            /\ this.muxingPromises.length = Len(obs.submitted)
            /\ this.muxingPromises.unsettled = 0
            /\ enc.pending = 0
            /\ mux.unsettled = 0]_vars
    /\ [](pc = "finalize" => mux.unsettled = 0)

\* finalize is running after more than 5 frames were submitted, each with
\* its mux operation collected.
C25_Witness ==
    /\ pc = "finalize"
    /\ Len(obs.submitted) > 5
    /\ this.muxingPromises.length = Len(obs.submitted)

(***************************************************************************)
(* Audio units forwarded to the muxer (Spec).                              *)
(***************************************************************************)
\* C26: the muxer receives audio units only one at a time, appended to what
\* it already received; when the export has succeeded the sequence it
\* received is the list of pre-encoded units, each once and in order, and
\* the timestamps of the received sequence never decrease.
C26_AudioForwardedOnce ==
    /\ [][mux.audio' # mux.audio =>
            /\ Len(mux.audio') = Len(mux.audio) + 1
            /\ SubSeq(mux.audio', 1, Len(mux.audio)) = mux.audio]_vars
    /\ [](result = "success" => mux.audio = obs.allAudio)
    /\ [](\A i, j \in DOMAIN mux.audio :
            i < j => mux.audio[i].timestamp <= mux.audio[j].timestamp)

\* A successful export with audio: some units were interleaved during the
\* capture and the last one was written after the flush.
C26_Witness ==
    /\ result = "success"
    /\ Len(obs.allAudio) > 2
    /\ loc.finalIdx = Len(loc.finalArr) + 1
    /\ loc.finalArr # <<>>
    /\ Len(obs.allAudio) > Len(loc.finalArr)
    /\ mux.audio = obs.allAudio

(***************************************************************************)
(* Audio is encoded before the capture (Spec).                             *)
(***************************************************************************)
\* getAllEncodedChunks() is running: its AudioEncoder exists from the call
\* until the promise settles, after flush() and close().
AudioEncoding == pc = "getAllEncodedChunks"

C28_QueueIsInFlight ==
    /\ this.encodeQueue >= 0
    /\ (this.encoder /\ enc.state = "configured") =>
          this.encodeQueue = Len(obs.submitted) - this.muxingPromises.length

(***************************************************************************)
(* No new work after cancel() (Spec).                                      *)
(***************************************************************************)
\* C29: once cancel() has been called no step submits a frame to the
\* encoder (neither accepted nor counted in encodeQueue) and no step
\* forwards an audio unit to the muxer, wherever export() was suspended
\* when cancel() ran.
C29_NoWorkAfterCancel ==
    [][obs.cancelCalled =>
          /\ obs.submitted' = obs.submitted
          /\ enc.pending' <= enc.pending
          /\ this.encodeQueue' <= this.encodeQueue
          /\ mux.audio' = mux.audio]_vars

\* cancel() ran during a render await after frames had been submitted and
\* audio forwarded, and export() has gone on from that await since.
C29_Witness ==
    /\ obs.cancelCalled
    /\ obs.cancelledAt = "renderFrame"
    /\ pc # "renderFrame"
    /\ Len(obs.submitted) > 1
    /\ mux.audio # <<>>

(***************************************************************************)
(* Forced key frames (Spec).                                               *)
(***************************************************************************)
\* C30: a submitted frame carries the key-frame flag exactly when chunkCount
\* at its submission is a multiple of 2 x frameRate; chunkCount at a
\* submission is the number of frames submitted before, over all segments,
\* so the frames numbered 0, 2 x frameRate, 4 x frameRate, ... of the whole
\* export are the key frames and the first submitted frame is one.
C30_KeyFramePeriod ==
    /\ [][obs.submitted' # obs.submitted =>
            /\ Len(obs.submitted') = Len(obs.submitted) + 1
            /\ this.chunkCount = Len(obs.submitted)
            /\ obs.submitted'[Len(obs.submitted')].keyFrame <=>
                  (this.chunkCount % (2 * cfg.frameRate) = 0)]_vars
    /\ [](\A i \in DOMAIN obs.submitted :
            obs.submitted[i].keyFrame <=> ((i - 1) % (2 * cfg.frameRate) = 0))

\* The export of two segments of one second each, 2 x frameRate frames in
\* all: the first frame was a key frame and no frame after it was, the
\* first frame of the second segment included.
C30_Witness ==
    /\ cfg.duration = 6
    /\ Len(loc.segments) = 2
    /\ loc.segIdx = 2
    /\ Len(obs.submitted) = 2 * cfg.frameRate
    /\ obs.submitted[1].keyFrame
    /\ \A i \in 2..(2 * cfg.frameRate) : ~obs.submitted[i].keyFrame

(***************************************************************************)
(* The decoder configuration of the video track (Spec).                    *)
(***************************************************************************)
\* C31: the first video chunk handed to the muxer goes with the decoder
\* configuration built by the exporter (codec, coded size, description,
\* colour space), and no more than one chunk goes with it.
C31_ConfigOnFirstChunk ==
    /\ obs.firstChunk \in {"none", "orchestrator"}
    /\ obs.headers <= 1
    /\ (this.muxingPromises.length > 0 /\ this.muxer /\ obs.firstChunk # "none") =>
          obs.headers = 1

(***************************************************************************)
(* The blocks of getAllEncodedChunks (SpecEncode).                         *)
(***************************************************************************)
\* The blocks that contain sample index i.
BlocksOf(i) ==
    {j \in DOMAIN aenc.submitted :
        /\ aenc.submitted[j].offset <= i
        /\ i < aenc.submitted[j].offset + aenc.submitted[j].length}

\* t is offset / sampleRate in whole microseconds: t <= offset * 10^6 /
\* sampleRate < t + 1, with the fraction reduced.
MicrosecondsOf(t, offset, sampleRate) ==
    LET g == GCD(1000000, sampleRate)
    IN  /\ t * (sampleRate \div g) <= offset * (1000000 \div g)
        /\ offset * (1000000 \div g) < (t + 1) * (sampleRate \div g)

\* C32: when getAllEncodedChunks has resolved for a buffer, the blocks it
\* submitted partition the buffer (every sample index lies in exactly one
\* block), every block but the last has 4096 samples and the last has 1 to
\* 4096, each block's timestamp is its offset / sampleRate in microseconds
\* and the timestamps increase strictly, and the list returned has one unit
\* per block in order; the encoder is closed, after its flush, by a step
\* that finds every block of the buffer submitted and output.
C32_BlocksPartition ==
    /\ []((pc = "audioReturned" /\ ae.processedBuffer # NoBuffer) =>
            LET blocks == aenc.submitted
                n == Len(blocks)
            IN  /\ \A i \in 0..(ae.processedBuffer.length - 1) :
                      Cardinality(BlocksOf(i)) = 1
                /\ \A j \in 1..n :
                      /\ blocks[j].offset >= 0
                      /\ blocks[j].offset + blocks[j].length <= ae.processedBuffer.length
                      /\ j < n => blocks[j].length = 4096
                      /\ j = n => blocks[j].length \in 1..4096
                      /\ MicrosecondsOf(blocks[j].timestamp, blocks[j].offset,
                                        ae.processedBuffer.sampleRate)
                      /\ j < n => blocks[j].timestamp < blocks[j + 1].timestamp
                /\ aenc.returned = blocks
                /\ aenc.returned = EncodedChunks(ae.processedBuffer)
                /\ aenc.state = "closed" /\ aenc.flushed)
    /\ [][aenc.flushed' /\ ~aenc.flushed =>
            /\ aenc.offset = ae.processedBuffer.length
            /\ aenc.pending = 0
            /\ Len(aenc.chunks) = Len(aenc.submitted)
            /\ aenc.state = "configured" /\ aenc'.state = "closed"
            /\ pc' = "audioReturned"]_vars
    /\ [](aenc.state = "configured" => pc \in {"audioYield", "audioFlush"})

\* getAllEncodedChunks has resolved for a buffer of three whole blocks and a
\* last block of one sample, after a yield of the loop.
C32_Witness ==
    /\ pc = "audioReturned"
    /\ ae.processedBuffer.length = 3 * 4096 + 1
    /\ ae.processedBuffer.sampleRate = 1000
    /\ Len(aenc.returned) = 4
    /\ aenc.returned[4].length = 1

(***************************************************************************)
(* Sequential reuse of the exporter (SpecReuse).                           *)
(***************************************************************************)
\* C33: an export() called after the previous one resolved starts with
\* cancelled = false, chunkCount = 0, encodeQueue = 0, no muxing promise and
\* an empty audio queue; the counters are still 0 at every await before its
\* first frame is rendered; its first submitted frame has timestamp 0; during it
\* this.cancelled becomes true only by a cancel() or an encoder error of its
\* own, and it resolves to "cancelled" only with this.cancelled set.
C33_ReuseStartsClean ==
    /\ [][(pc = "done" /\ pc' # "done") =>
            /\ ~this'.cancelled
            /\ this'.chunkCount = 0
            /\ this'.encodeQueue = 0
            /\ this'.muxingPromises = [length |-> 0, unsettled |-> 0]
            /\ this'.audioChunks = <<>>
            /\ mux'.unsettled = 0
            /\ result' = "none"]_vars
    /\ []((/\ obs.run > 1
           /\ obs.iterations = 0
           /\ pc \in {"loadVideo", "rendererInit", "isConfigSupported", "audioDecode",
                      "muxerInit", "getAllEncodedChunks", "segSeeked", "frameSeeked",
                      "renderFrame"}) =>
            /\ this.chunkCount = 0
            /\ this.encodeQueue = 0
            /\ this.muxingPromises.length = 0)
    /\ []((obs.run > 1 /\ obs.submitted # <<>>) =>
            /\ obs.submitted[1].timestamp = 0
            /\ obs.submitted[1].keyFrame)
    /\ [][(obs.run > 1 /\ pc # "done" /\ this'.cancelled /\ ~this.cancelled) =>
            \/ obs'.cancelCalled /\ ~obs.cancelCalled
            \/ this.encoder /\ enc.state = "configured" /\ enc'.state = "closed"]_vars
    /\ [][(obs.run > 1 /\ result' = "cancelled" /\ result = "none") =>
            this.cancelled]_vars

\* The second export() on the instance has succeeded after the first was
\* cancelled with frames submitted; its first frame had timestamp 0.
C33_Witness ==
    /\ obs.run = 2
    /\ obs.previous = "cancelled"
    /\ result = "success"
    /\ Len(obs.submitted) > 5
    /\ obs.submitted[1].timestamp = 0

(***************************************************************************)
(* The motion blur of applyZoomTransform (SpecZoom).                       *)
(***************************************************************************)
\* The three conditions of the blur hold for the parameters.
ShouldBlur ==
    /\ zoom.params.motionBlurEnabled
    /\ zoom.params.isPlaying
    /\ DLess(MotionThreshold, zoom.params.motionIntensity)

\* The blur the conditions call for: min(6, motionIntensity x 120), or 0.
BlurCalledFor ==
    IF ShouldBlur
    THEN (IF DLess(DFromInt(6), DMulInt(120, zoom.params.motionIntensity))
          THEN DFromInt(6)
          ELSE DMulInt(120, zoom.params.motionIntensity))
    ELSE DZero

C35_ExportResolves == (pc \notin {"idle", "done"}) => Resumable

(***************************************************************************)
(* Progress totals (SpecFrames).                                           *)
(***************************************************************************)
\* C36: totalFrames of the progress events is the number of frames the
\* capture loop submits over the planned segments, and no progress event
\* reports a currentFrame above totalFrames.
C36_TotalFramesIsFrameCount ==
    /\ \A i \in DOMAIN obs.progress :
          obs.progress[i].currentFrame <= obs.progress[i].totalFrames
    /\ (pc = "done" /\ result = "success") => Len(obs.submitted) = loc.totalFrames

(***************************************************************************)
(* The encoder's error callback (Spec).                                    *)
(***************************************************************************)
\* The awaits of the capture loop and of encoder.flush().
CaptureOrFlush ==
    {"segSeeked", "bpTimeout", "frameSeeked", "renderFrame", "addAudioChunk", "flush"}

\* C37, the part about what is done: after the encoder's error callback
\* has fired during capture or flush no frame is submitted, finalize() is
\* not called and export() does not resolve with success.
C37_NothingAfterError ==
    /\ [](obs.erroredAt \in CaptureOrFlush /\ pc = "done" => result # "success")
    /\ [][obs.erroredAt \in CaptureOrFlush =>
            /\ obs.submitted' = obs.submitted
            /\ mux.finalizeCalls' = mux.finalizeCalls]_vars

\* C37: if the encoder's error callback fires during capture or flush,
\* export() goes on until it resolves and resolves with success = false, no
\* further frame is submitted and muxer.finalize() is never called.
C37_ErrorFailsExport ==
    /\ C37_NothingAfterError
    /\ [](obs.erroredAt \in CaptureOrFlush /\ pc # "done" => Resumable)

(***************************************************************************)
(* Recorded duration (SpecRecorder).                                       *)
(***************************************************************************)
\* C38: the duration passed to fixWebmDuration is the time between start and
\* stop less the time the recorder spent paused (the stop is taken anywhere
\* between the call of stopRecording and the 'stop' event).
C38_DurationExcludesPauses ==
    rec.fixed =>
        \E stop \in rec.stoppedAt..rec.firedAt :
            rec.duration = (stop - rec.startTime) - rec.pausedFor

(***************************************************************************)
(* Mouse clicks and sampling timers (SpecHandlers).                        *)
(***************************************************************************)
\* C39: over the start/stop cycles a 'mousedown' event during a recording
\* appends exactly one entry to mouseClicks, one while not recording appends
\* none, and at most one sampling interval is active at any time.
C39_OneEntryPerClick ==
    /\ [][ipc.delivered' # ipc.delivered =>
            Len(ipc.mouseClicks') =
                Len(ipc.mouseClicks) + (IF ipc.isRecordingMouse THEN 1 ELSE 0)]_vars
    /\ [](Cardinality(ipc.timers) <= 1)

====
